---------------------------- MODULE Spec2Model ----------------------------
(***************************************************************************)
(* A model of northbright/iocopy: the interruptible copy engine (cp /      *)
(* Start in iocopy.go), the task runner (Do in task.go) and the resumable  *)
(* FileCopy and Download tasks (copyfile.go, download.go).                 *)
(*                                                                         *)
(* One logical transfer is followed through its life: a task is built, a   *)
(* Do session runs it (one copy worker goroutine, one consumer loop), the  *)
(* session ends with OK, Stop or Error, and after a Stop the snapshot      *)
(* handed to onStop is loaded and run again.                               *)
(***************************************************************************)
EXTENDS Integers, Sequences, FiniteSets, TLC

(***************************************************************************)
(* Bounds of the model.                                                    *)
(***************************************************************************)
MaxSrcLen == 3
MaxBufSize == 2
MaxSessions == 2
\* Frames of Task.UnmarshalJSON the goroutine's stack holds before the
\* runtime ends the process with a stack overflow.
MaxStack == 3

(***************************************************************************)
(* Program constants.                                                      *)
(***************************************************************************)
DefaultBufSize == 32768
DefaultInterval == 500

VARIABLES
    srcData,        \* content of the source (file Src, or the body served at Url)
    srvSizeKnown,   \* the server sends a usable Content-Length
    srvRange,       \* the server supports byte ranges
    dstFile,        \* content of the destination file Dst
    task,           \* the task struct (CopyFileTask / DownloadTask), or NoTask
    r,              \* the task's reader handle: [open, off]
    w,              \* the task's writer handle: [open, append, off]
    savedState,     \* the caller's copy of the snapshot handed to onStop
    ctxErr,         \* ctx.Err() of the session's context: "nil" until it is done
    doPc,           \* where the caller is: "notask", "ready", "range", "returned"
    doVars,         \* locals of Do: isTotalKnown, total, copied
    session,        \* number of Do invocations started so far
    pc,             \* where the copy worker is
    cpVars,         \* locals of cp
    tickerOn,       \* the worker's ticker is running
    tick,           \* a tick is waiting in ticker.C
    outEv,          \* the event the worker is sending on ch
    closeCount,     \* how many times close(ch) ran in this session
    sent,           \* events the worker has sent in this session, in order
    recvd,          \* events the consumer has received in this session, in order
    calls,          \* callbacks Do has invoked in this session, in order
    exitPath,       \* the branch by which the worker left its loop
    sessSink,       \* bytes accepted by the sink in this session, in order
    sessStart,      \* reader offset at the start of this session
    writtenAtDone,  \* written when the session's context became done; -1 before
    copyVars,       \* the locals of a running Copy or CopyBuffer call
    hashed,         \* bytes absorbed by the hash accumulators (a hash sink)
    closes,         \* Close calls made by the running Do: [r, w]
    dstExists,      \* the destination path names a file
    ctor,           \* the task constructor's call: what it met, what it returned
    prog,           \* a Progress and the goroutine its Start runs
    cwp,            \* progress state of a running CopyWithProgress call
    load            \* a running copyfile.Load call and its call stack

vars == <<srcData, srvSizeKnown, srvRange, dstFile, task, r, w, savedState,
          ctxErr, doPc, doVars, session, pc, cpVars, tickerOn, tick, outEv,
          closeCount, sent, recvd, calls, exitPath, sessSink, sessStart,
          writtenAtDone, copyVars, hashed, closes, dstExists, ctor, prog,
          cwp, load>>

srvVars == <<srcData, srvSizeKnown, srvRange>>
\* State of what is used beside a task: package progress, CopyWithProgress,
\* copyfile.Load.
sideVars == <<prog, cwp, load>>
envVars == <<srvVars, sideVars, dstExists, ctor>>
workerVars == <<pc, cpVars, tickerOn, tick, outEv, closeCount, sent, exitPath,
                sessSink, hashed>>

Min(a, b) == IF a < b THEN a ELSE b
Max(a, b) == IF a > b THEN a ELSE b

(***************************************************************************)
(* The source: byte i of an n-byte source is i, so that a byte that is     *)
(* skipped, duplicated or misplaced shows in the destination.              *)
(***************************************************************************)
Source(n) == [i \in 1..n |-> i]

NoTask == [kind |-> "none"]
NoEvent == [kind |-> "none"]
NoState == [ok |-> FALSE]
ClosedR == [open |-> FALSE, off |-> 0]
\* The nil io.Reader or io.Writer a failed Reader() or Writer() returns.
NilHandle == [open |-> FALSE, append |-> FALSE, off |-> 0, isNil |-> TRUE]
IsNil(h) == "isNil" \in DOMAIN h
ClosedW == [open |-> FALSE, append |-> FALSE, off |-> 0]
NoCp == [bufSize |-> 0, interval |-> 0, isTotalKnown |-> FALSE, total |-> 0,
         prevCopied |-> 0, written |-> 0, oldWritten |-> 0, buf |-> <<>>,
         err |-> "nil"]
NoCloses == [r |-> 0, w |-> 0]
NoProgress ==
    [pc |-> "none", hasFn |-> FALSE, current |-> 0, old |-> 0, tick |-> FALSE,
     chExit |-> "empty", ctx |-> "nil", reported |-> <<>>, atSignal |-> -1,
     atExit |-> -1, exitBy |-> "none"]
NoCtor == [sc |-> "none", err |-> "nil", open |-> {}]
NoCopy == [pc |-> "none", bufSize |-> 0, written |-> 0, buf |-> <<>>, er |-> "nil",
           err |-> "nil", n |-> 0]
NoCwp == [fn |-> FALSE, total |-> 0, prev |-> 0, current |-> 0,
          oldPercent |-> <<0, 1>>, reports |-> <<>>]
NoLoad == [pc |-> "none", depth |-> 0, valid |-> FALSE, doc |-> <<>>,
           err |-> "nil"]
NoDo == [isTotalKnown |-> FALSE, total |-> 0, copied |-> 0, ctx |-> "nil"]

Init ==
    /\ srcData \in {Source(n) : n \in 0..MaxSrcLen}
    /\ srvSizeKnown \in BOOLEAN
    /\ srvRange \in BOOLEAN
    /\ dstFile \in {<<>>, <<9>>}
    /\ dstExists = (dstFile # <<>>)
    /\ ctor = NoCtor
    /\ prog = NoProgress
    /\ cwp = NoCwp
    /\ load = NoLoad
    /\ task = NoTask
    /\ r = ClosedR
    /\ w = ClosedW
    /\ savedState = NoState
    /\ ctxErr = "nil"
    /\ doPc = "notask"
    /\ doVars = NoDo
    /\ session = 0
    /\ pc = "none"
    /\ cpVars = NoCp
    /\ tickerOn = FALSE
    /\ tick = FALSE
    /\ outEv = NoEvent
    /\ closeCount = 0
    /\ sent = <<>>
    /\ recvd = <<>>
    /\ calls = <<>>
    /\ exitPath = "none"
    /\ sessSink = <<>>
    /\ sessStart = 0
    /\ writtenAtDone = -1
    /\ copyVars = NoCopy
    /\ hashed = <<>>
    /\ closes = NoCloses

(***************************************************************************)
(* Files.  A write through a handle opened with O_APPEND lands at the end  *)
(* of the file whatever the handle's offset is; any other write lands at   *)
(* the handle's offset.                                                    *)
(***************************************************************************)
WriteAt(f, pos, b) ==
    [i \in 1..Max(Len(f), pos + Len(b)) |->
        IF i > pos /\ i <= pos + Len(b) THEN b[i - pos]
        ELSE IF i <= Len(f) THEN f[i]
        ELSE 0]

WritePos(h, f) == IF h.append THEN Len(f) ELSE h.off

\* os.Create: truncate, offset 0.
OsCreate == [open |-> TRUE, append |-> FALSE, off |-> 0]
\* os.OpenFile(O_APPEND|O_CREATE|O_WRONLY): content kept, offset 0.
OsOpenAppend == [open |-> TRUE, append |-> TRUE, off |-> 0]
\* os.Open: offset 0.
OsOpen == [open |-> TRUE, off |-> 0]
\* strings.NewReader: offset 0; it has no Close.
StringsReader == [open |-> TRUE, off |-> 0]
\* io.MultiWriter over the hash accumulators: every write is absorbed after
\* the bytes absorbed before; it has no Close.
HashWriter == [open |-> TRUE, append |-> TRUE, off |-> 0]
\* (*os.File).Seek(off, 0)
Seek(h, off) == [h EXCEPT !.off = off]

(***************************************************************************)
(* What one Read(buf) on a reader at offset off can return: some bytes of  *)
(* the stream, at most len(buf), with no error; the last bytes together    *)
(* with io.EOF; (0, io.EOF) at the end; or a failure, with any number of   *)
(* bytes.  Each result is [n, err, data].                                  *)
(***************************************************************************)
ReadResults(data, off, bufSize) ==
    LET rem == Max(Len(data) - off, 0)
        most == Min(bufSize, rem)
        chunk(n) == SubSeq(data, off + 1, off + n)
    IN  {[n |-> n, err |-> "nil", data |-> chunk(n)] : n \in 1..most}
        \cup {[n |-> n, err |-> "EOF", data |-> chunk(n)] : n \in {rem} \cap (0..most)}
        \cup {[n |-> n, err |-> "read error", data |-> chunk(n)] : n \in 0..most}

(***************************************************************************)
(* What one Write(p) can return: all of p written and no error, or fewer   *)
(* bytes written and an error.  Each result is [n, err].                   *)
(***************************************************************************)
WriteResults(p) ==
    {[n |-> Len(p), err |-> "nil"]}
    \cup {[n |-> m, err |-> "write error"] : m \in 0..(Len(p) - 1)}

(***************************************************************************)
(* Numbers in a snapshot are written as decimal strings (`json:",string"`) *)
(***************************************************************************)
Digits == <<"0", "1", "2", "3", "4", "5", "6", "7", "8", "9">>

RECURSIVE FormatUint(_)
FormatUint(n) ==
    IF n < 10 THEN <<Digits[n + 1]>>
    ELSE Append(FormatUint(n \div 10), Digits[(n % 10) + 1])

DigitVal(c) == CHOOSE d \in 0..9 : Digits[d + 1] = c

RECURSIVE ParseUint(_)
ParseUint(s) ==
    IF Len(s) = 1 THEN DigitVal(s[1])
    ELSE ParseUint(SubSeq(s, 1, Len(s) - 1)) * 10 + DigitVal(s[Len(s)])

(***************************************************************************)
(* Events (iocopy.go).  Every event is a record of the same shape; kind    *)
(* is "Written", "Stop", "OK" or "Error".                                  *)
(***************************************************************************)
newEventWritten(isTotalKnown, total, prevCopied, written, done) ==
    [kind |-> "Written", isTotalKnown |-> isTotalKnown, total |-> total,
     prevCopied |-> prevCopied, written |-> written, done |-> done, err |-> "nil"]

newEventError(err) ==
    [kind |-> "Error", isTotalKnown |-> FALSE, total |-> 0,
     prevCopied |-> 0, written |-> 0, done |-> FALSE, err |-> err]

\* newEventStop that reports every stop as a cancel.
newEventStop_canceled(err, isTotalKnown, total, prevCopied, written) ==
    [newEventWritten(isTotalKnown, total, prevCopied, written, FALSE)
        EXCEPT !.kind = "Stop", !.err = "Canceled"]

newEventStop(err, isTotalKnown, total, prevCopied, written) ==
    [newEventWritten(isTotalKnown, total, prevCopied, written, FALSE)
        EXCEPT !.kind = "Stop", !.err = err]

newEventOK(isTotalKnown, total, prevCopied, written) ==
    [newEventWritten(isTotalKnown, total, prevCopied, written, TRUE)
        EXCEPT !.kind = "OK"]

\* Copied that forgets the bytes copied previously.
EvCopied_writtenOnly(e) == e.written

\* (*EventWritten).Copied
EvCopied(e) == e.prevCopied + e.written

\* ComputePercent without the check of done.
ComputePercent_noDone(total, prevCopied, written, done) ==
    IF total = 0 THEN [num |-> 0, den |-> 1]
    ELSE [num |-> 100 * (prevCopied + written), den |-> total]

\* ComputePercent, as the exact ratio num/den that the float32 result rounds.
ComputePercent(total, prevCopied, written, done) ==
    IF done THEN [num |-> 100, den |-> 1]
    ELSE IF total = 0 THEN [num |-> 0, den |-> 1]
    ELSE [num |-> 100 * (prevCopied + written), den |-> total]

\* (*EventWritten).Percent
EvPercent(e) == ComputePercent(e.total, e.prevCopied, e.written, e.done)

IsTerminal(e) == e.kind \in {"Stop", "OK", "Error"}

(***************************************************************************)
(* Tasks.  A CopyFileTask is [kind, Dst, Src, Size, Copied]; a             *)
(* DownloadTask is [kind, Dst, Url, IsSizeKnown, Size, IsRangeSupported,   *)
(* Downloaded]; a HashTask is [kind, Algs, Computed, States, hashes],      *)
(* where hashes tells whether the accumulators implement                   *)
(* encoding.BinaryMarshaler.  The methods dispatch on the kind.            *)
(***************************************************************************)
\* (*HashTask).total
hashTotal == [isTotalKnown |-> FALSE, total |-> 0]

\* (*HashTask).copied
hashCopied(t) == t.Computed

\* (*HashTask).setCopied
hashSetCopied(t, c) == [t EXCEPT !.Computed = c]

\* (*HashTask).state: the accumulator's exported state is determined by the
\* bytes it has absorbed.  It stores the state in t.States before encoding.
hashState(t) ==
    IF t.hashes # "BinaryMarshaler"
    THEN [err |-> "not binary marshaler", data |-> <<>>, task |-> t]
    ELSE LET t1 == [t EXCEPT !.States = hashed]
         IN  [err |-> "nil",
              data |-> [algs |-> t1.Algs, computed |-> FormatUint(t1.Computed),
                        states |-> t1.States],
              task |-> t1]

total(t) ==
    IF t.kind = "hash" THEN hashTotal
    ELSE IF t.kind = "file" THEN [isTotalKnown |-> TRUE, total |-> t.Size]
    ELSE [isTotalKnown |-> t.IsSizeKnown, total |-> t.Size]

copied(t) ==
    IF t.kind = "hash" THEN hashCopied(t)
    ELSE IF t.kind = "file" THEN t.Copied ELSE t.Downloaded

setCopied(t, c) ==
    IF t.kind = "hash" THEN hashSetCopied(t, c)
    ELSE IF t.kind = "file" THEN [t EXCEPT !.Copied = c]
    ELSE [t EXCEPT !.Downloaded = c]

\* json.Marshal of the task struct: the snapshot document.
MarshalJSON(t) ==
    IF t.kind = "hash" THEN [err |-> hashState(t).err, data |-> hashState(t).data]
    ELSE IF t.kind = "file"
    THEN [err |-> "nil",
          data |-> [dst |-> t.Dst, src |-> t.Src,
                    size |-> FormatUint(t.Size), copied |-> FormatUint(t.Copied)]]
    ELSE [err |-> "nil",
          data |-> [dst |-> t.Dst, url |-> t.Url,
                    is_size_known |-> t.IsSizeKnown, size |-> FormatUint(t.Size),
                    is_range_supported |-> t.IsRangeSupported,
                    downloaded |-> FormatUint(t.Downloaded)]]

\* UnmarshalCopyFileTask that does not decode the copied field.
UnmarshalCopyFileTask_noCopied(data) ==
    [kind |-> "file", Dst |-> data.dst, Src |-> data.src,
     Size |-> ParseUint(data.size), Copied |-> 0]

\* json.Unmarshal of a snapshot document into a CopyFileTask.
UnmarshalCopyFileTask(data) ==
    [kind |-> "file", Dst |-> data.dst, Src |-> data.src,
     Size |-> ParseUint(data.size), Copied |-> ParseUint(data.copied)]

\* json.Unmarshal of a snapshot document into a DownloadTask.
UnmarshalDownloadTask(data) ==
    [kind |-> "download", Dst |-> data.dst, Url |-> data.url,
     IsSizeKnown |-> data.is_size_known, Size |-> ParseUint(data.size),
     IsRangeSupported |-> data.is_range_supported,
     Downloaded |-> ParseUint(data.downloaded)]

\* httputil.GetResp(url): a plain GET; the body starts at offset 0.
GetResp ==
    [resp |-> OsOpen, isSizeKnown |-> srvSizeKnown,
     size |-> IF srvSizeKnown THEN Len(srcData) ELSE 0,
     isRangeSupported |-> srvRange]

\* httputil.GetRespOfRangeStart(url, start): the body starts at offset start.
GetRespOfRangeStart(start) == [resp |-> Seek(OsOpen, start)]

\* CopyFileHandles that seeks the destination only.
CopyFileHandles_noSrcSeek(t) ==
    LET fw == OsOpenAppend
        fr == OsOpen
    IN  IF t.Copied # 0
        THEN [w |-> Seek(fw, t.Copied), r |-> fr]
        ELSE [w |-> fw, r |-> fr]

\* The handles LoadCopyFileTask leaves in the task: [w, r].
CopyFileHandles(t) ==
    LET fw == OsOpenAppend
        fr == OsOpen
    IN  IF t.Copied # 0
        THEN [w |-> Seek(fw, t.Copied), r |-> Seek(fr, t.Copied)]
        ELSE [w |-> fw, r |-> fr]

\* The task and handles LoadDownloadTask leaves: [task, w, r].
DownloadLoaded(t) ==
    LET fw == OsOpenAppend
    IN  IF ~t.IsRangeSupported
        THEN LET g == GetResp
             IN  [task |-> [t EXCEPT !.IsSizeKnown = g.isSizeKnown,
                                     !.Size = g.size,
                                     !.IsRangeSupported = g.isRangeSupported,
                                     !.Downloaded = 0],
                  w |-> fw, r |-> g.resp]
        ELSE [task |-> t,
              w |-> Seek(fw, t.Downloaded),
              r |-> GetRespOfRangeStart(t.Downloaded).resp]

sessionVars == <<ctxErr, doVars, session, sent, recvd, calls, sessStart,
                 writtenAtDone, copyVars, closes>>

\* What the constructor meets: a regular source that opens and a
\* destination that can be created ("ok"), no source at the path, a source
\* that is a directory, a destination that cannot be created, or a source
\* that cannot be opened.
CopyFileScenarios == {"ok", "missing", "dir", "createFails", "openFails"}

\* NewCopyFileTaskSteps that creates the destination before it looks at the
\* source.
NewCopyFileTaskSteps_createFirst(sc) ==
    IF sc = "createFails"
    THEN [err |-> "create error", created |-> FALSE, open |-> {}]
    ELSE IF sc = "missing"
    THEN [err |-> "lstat error", created |-> TRUE, open |-> {"fw"}]
    ELSE IF sc = "dir"
    THEN [err |-> "src's not a regular file", created |-> TRUE, open |-> {"fw"}]
    ELSE IF sc = "openFails"
    THEN [err |-> "open error", created |-> TRUE, open |-> {"fw"}]
    ELSE [err |-> "nil", created |-> TRUE, open |-> {"fw", "fr"}]

\* The steps of NewCopyFileTask in order: Lstat, the regular-file check,
\* os.Create, os.Open.  created tells whether os.Create ran and succeeded,
\* open which handles are open when the constructor returns: no error
\* return closes what was opened before it.
NewCopyFileTaskSteps(sc) ==
    IF sc = "missing"
    THEN [err |-> "lstat error", created |-> FALSE, open |-> {}]
    ELSE IF sc = "dir"
    THEN [err |-> "src's not a regular file", created |-> FALSE, open |-> {}]
    ELSE IF sc = "createFails"
    THEN [err |-> "create error", created |-> FALSE, open |-> {}]
    ELSE IF sc = "openFails"
    THEN [err |-> "open error", created |-> TRUE, open |-> {"fw"}]
    ELSE [err |-> "nil", created |-> TRUE, open |-> {"fw", "fr"}]

NewCopyFileTask ==
    /\ doPc = "notask"
    /\ \E sc \in CopyFileScenarios :
          LET st == NewCopyFileTaskSteps(sc)
          IN  /\ ctor' = [sc |-> sc, err |-> st.err, open |-> st.open]
              /\ dstFile' = IF st.created THEN <<>> ELSE dstFile
              /\ dstExists' = (st.created \/ dstExists)
              /\ IF st.err = "nil"
                 THEN /\ task' = [kind |-> "file", Dst |-> "dst", Src |-> "src",
                                  Size |-> Len(srcData), Copied |-> 0]
                      /\ w' = OsCreate
                      /\ r' = OsOpen
                      /\ doPc' = "ready"
                 ELSE /\ doPc' = "failed"
                      /\ UNCHANGED <<task, w, r>>
    /\ UNCHANGED <<srvVars, sideVars, savedState, sessionVars, workerVars>>

\* What the file system given to NewCopyFileFromFSTask and the destination
\* do: srcFS.Open fails, File.Stat fails, the source is a directory,
\* os.Create fails, or everything works.
CopyFileFromFSScenarios == {"fsOk", "fsOpenFails", "fsStatFails", "fsDir", "fsCreateFails"}

\* The steps of NewCopyFileFromFSTask in order: srcFS.Open, whose error is
\* overwritten by the next assignment without being read; fr.Stat(), a method
\* call on the nil fs.File when Open failed, which panics; the regular-file
\* check; os.Create.
NewCopyFileFromFSTaskSteps(sc) ==
    IF sc = "fsOpenFails"
    THEN [out |-> "panic", err |-> "nil", created |-> FALSE, open |-> {}]
    ELSE IF sc = "fsStatFails"
    THEN [out |-> "error", err |-> "stat error", created |-> FALSE, open |-> {"fr"}]
    ELSE IF sc = "fsDir"
    THEN [out |-> "error", err |-> "not regular file", created |-> FALSE,
          open |-> {"fr"}]
    ELSE IF sc = "fsCreateFails"
    THEN [out |-> "error", err |-> "create error", created |-> FALSE,
          open |-> {"fr"}]
    ELSE [out |-> "ok", err |-> "nil", created |-> TRUE, open |-> {"fr", "fw"}]

NewCopyFileFromFSTask ==
    /\ doPc = "notask"
    /\ \E sc \in CopyFileFromFSScenarios :
          LET st == NewCopyFileFromFSTaskSteps(sc)
          IN  /\ ctor' = [sc |-> sc, err |-> st.err, open |-> st.open]
              /\ dstFile' = IF st.created THEN <<>> ELSE dstFile
              /\ dstExists' = (st.created \/ dstExists)
              /\ IF st.out = "ok"
                 THEN /\ task' = [kind |-> "file", Dst |-> "dst", Src |-> "src",
                                  Size |-> Len(srcData), Copied |-> 0]
                      /\ w' = OsCreate
                      /\ r' = OsOpen
                      /\ doPc' = "ready"
                 ELSE /\ doPc' = IF st.out = "panic" THEN "panicked" ELSE "failed"
                      /\ UNCHANGED <<task, w, r>>
    /\ UNCHANGED <<srvVars, sideVars, savedState, sessionVars, workerVars>>

\* What NewDownloadTask meets: the request fails, the destination cannot
\* be created, or everything works.
DownloadScenarios == {"dlOk", "dlGetFails", "dlCreateFails"}

\* The steps of NewDownloadTask in order: httputil.GetResp, os.Create.
\* The response body GetResp returned stays open when os.Create fails.
NewDownloadTaskSteps(sc) ==
    IF sc = "dlGetFails"
    THEN [err |-> "get error", created |-> FALSE, open |-> {}]
    ELSE IF sc = "dlCreateFails"
    THEN [err |-> "create error", created |-> FALSE, open |-> {"resp"}]
    ELSE [err |-> "nil", created |-> TRUE, open |-> {"resp", "fw"}]

NewDownloadTask ==
    /\ doPc = "notask"
    /\ \E sc \in DownloadScenarios :
          LET st == NewDownloadTaskSteps(sc)
              g == GetResp
          IN  /\ ctor' = [sc |-> sc, err |-> st.err, open |-> st.open]
              /\ dstFile' = IF st.created THEN <<>> ELSE dstFile
              /\ dstExists' = (st.created \/ dstExists)
              /\ IF st.err = "nil"
                 THEN /\ task' = [kind |-> "download", Dst |-> "dst", Url |-> "url",
                                  IsSizeKnown |-> g.isSizeKnown, Size |-> g.size,
                                  IsRangeSupported |-> g.isRangeSupported,
                                  Downloaded |-> 0]
                      /\ r' = g.resp
                      /\ w' = OsCreate
                      /\ doPc' = "ready"
                 ELSE /\ doPc' = "failed"
                      /\ UNCHANGED <<task, w, r>>
    /\ UNCHANGED <<srvVars, sideVars, savedState, sessionVars, workerVars>>

\* NewHashTask over a strings.Reader of the source bytes, with one algorithm:
\* fresh accumulators, Computed 0, no states.  Whether the accumulator type
\* implements encoding.BinaryMarshaler is a property of the hash
\* implementation, chosen here.
NewHashTask ==
    /\ doPc = "notask"
    /\ \E h \in {"BinaryMarshaler", "plain"} :
          task' = [kind |-> "hash", Algs |-> <<"SHA-256">>, Computed |-> 0,
                   States |-> <<>>, hashes |-> h]
    /\ r' = StringsReader
    /\ w' = HashWriter
    /\ doPc' = "ready"
    /\ UNCHANGED <<envVars, dstFile, savedState, sessionVars, workerVars>>

(***************************************************************************)
(* The caller loads the snapshot it was handed by onStop, after Do has     *)
(* returned.                                                               *)
(***************************************************************************)
CanLoad ==
    /\ doPc = "returned"
    /\ session < MaxSessions
    /\ savedState # NoState
    /\ calls # <<>>
    /\ calls[Len(calls)].name = "onStop"

LoadCopyFileTask ==
    /\ CanLoad
    /\ task.kind = "file"
    /\ LET t == UnmarshalCopyFileTask(savedState)
           h == CopyFileHandles(t)
       IN  /\ task' = t
           /\ w' = h.w
           /\ r' = h.r
    /\ doPc' = "ready"
    /\ UNCHANGED <<envVars, dstFile, savedState, sessionVars, workerVars>>

LoadDownloadTask ==
    /\ CanLoad
    /\ task.kind = "download"
    /\ LET l == DownloadLoaded(UnmarshalDownloadTask(savedState))
       IN  /\ task' = l.task
           /\ w' = l.w
           /\ r' = l.r
    /\ doPc' = "ready"
    /\ UNCHANGED <<envVars, dstFile, savedState, sessionVars, workerVars>>

(***************************************************************************)
(* Do (task.go): the callbacks it invokes are logged in calls.             *)
(***************************************************************************)
Call(name, ew, cause, data) ==
    [name |-> name, isTotalKnown |-> ew.isTotalKnown, total |-> ew.total,
     copied |-> EvCopied(ew), written |-> ew.written, percent |-> EvPercent(ew),
     cause |-> cause, data |-> data]

ErrCall(err) ==
    [name |-> "onError", isTotalKnown |-> FALSE, total |-> 0, copied |-> 0,
     written |-> 0, percent |-> [num |-> 0, den |-> 1], cause |-> err,
     data |-> NoState]

\* case *EventWritten
DoOnWritten(t, ev) ==
    [task |-> t, calls |-> <<Call("onWritten", ev, "nil", NoState)>>]

\* DoOnStop that calls onStop whether or not the snapshot could be taken.
DoOnStop_ignoreErr(t, ev) ==
    LET t1 == setCopied(t, EvCopied(ev))
        m == MarshalJSON(t1)
    IN  [task |-> t1, calls |-> <<Call("onStop", ev, ev.err, m.data)>>]

\* DoOnStop that takes the snapshot before it stores the counter.
DoOnStop_snapshotFirst(t, ev) ==
    LET m == MarshalJSON(t)
        t1 == setCopied(t, EvCopied(ev))
        t2 == IF t1.kind = "hash" THEN hashState(t1).task ELSE t1
    IN  IF m.err # "nil"
        THEN [task |-> t2, calls |-> <<ErrCall(m.err)>>]
        ELSE [task |-> t2, calls |-> <<Call("onStop", ev, ev.err, m.data)>>]

\* case *EventStop
DoOnStop(t, ev) ==
    LET t1 == setCopied(t, EvCopied(ev))
        m == MarshalJSON(t1)
        t2 == IF t1.kind = "hash" THEN hashState(t1).task ELSE t1
    IN  IF m.err # "nil"
        THEN [task |-> t2, calls |-> <<ErrCall(m.err)>>]
        ELSE [task |-> t2, calls |-> <<Call("onStop", ev, ev.err, m.data)>>]

\* case *EventOK
DoOnOK(t, ev) ==
    [task |-> setCopied(t, EvCopied(ev)),
     calls |-> <<Call("onOK", ev, "nil", NoState)>>]

\* DoOnError that invokes no callback.
DoOnError_silent(t, ev) ==
    [task |-> t, calls |-> <<>>]

\* DoOnError that updates the counter as the Stop and OK cases do.
DoOnError_setCopied(t, ev) ==
    [task |-> setCopied(t, EvCopied(ev)), calls |-> <<ErrCall(ev.err)>>]

\* case *EventError
DoOnError(t, ev) ==
    [task |-> t, calls |-> <<ErrCall(ev.err)>>]

\* The type switch of Do's event loop.
DoHandle(t, ev) ==
    CASE ev.kind = "Written" -> DoOnWritten(t, ev)
      [] ev.kind = "Stop" -> DoOnStop(t, ev)
      [] ev.kind = "OK" -> DoOnOK(t, ev)
      [] ev.kind = "Error" -> DoOnError(t, ev)

\* Start: the arguments it hands to cp, and cp's fresh locals.
Start(bufSize, interval, isTotalKnown, tot, prevCopied) ==
    [bufSize |-> bufSize, interval |-> interval, isTotalKnown |-> TRUE,
     total |-> tot, prevCopied |-> prevCopied,
     written |-> 0, oldWritten |-> 0, buf |-> <<>>, err |-> "nil"]

\* Do, up to and including the call of Start, with a fresh context.
\* The state of the context the caller passes: live, or done already.
CtxAtCall == {"nil", "Canceled", "DeadlineExceeded"}

DoStart ==
    /\ doPc = "ready"
    /\ \E bufSize \in 0..MaxBufSize, ctx \in CtxAtCall :
          LET tt == total(task)
              c == copied(task)
          IN  /\ doVars' = [isTotalKnown |-> tt.isTotalKnown, total |-> tt.total,
                            copied |-> c, ctx |-> ctx]
              /\ cpVars' = Start(bufSize, DefaultInterval, tt.isTotalKnown, tt.total, c)
              /\ ctxErr' = ctx
              /\ writtenAtDone' = IF ctx = "nil" THEN -1 ELSE 0
    /\ pc' = "init"
    /\ doPc' = "range"
    /\ session' = session + 1
    /\ tickerOn' = FALSE
    /\ tick' = FALSE
    /\ outEv' = NoEvent
    /\ closeCount' = 0
    /\ sent' = <<>>
    /\ recvd' = <<>>
    /\ calls' = <<>>
    /\ exitPath' = "none"
    /\ sessSink' = <<>>
    /\ sessStart' = r.off
    /\ closes' = NoCloses
    /\ UNCHANGED <<envVars, dstFile, task, r, w, savedState, hashed, copyVars>>

\* AfterSend with the return after a terminal send left out.
AfterSend_noReturn(kind) == "select"

\* Where the worker goes once its send has been received: it loops after a
\* progress event and returns after a terminal one.
AfterSend(kind) == IF kind = "Written" THEN "select" ELSE "exit"

\* One iteration of `for event := range ch`: receive the event being sent
\* and handle it.  The onStop callback of the caller keeps the snapshot.
DoRecv ==
    /\ doPc = "range"
    /\ pc = "send"
    /\ LET h == DoHandle(task, outEv)
           n == Len(h.calls)
       IN  /\ task' = h.task
           /\ calls' = calls \o h.calls
           /\ savedState' = IF n > 0 /\ h.calls[n].name = "onStop"
                            THEN h.calls[n].data
                            ELSE savedState
    /\ recvd' = Append(recvd, outEv)
    /\ pc' = AfterSend(outEv.kind)
    /\ outEv' = NoEvent
    /\ UNCHANGED <<envVars, dstFile, r, w, ctxErr, doPc, doVars, session,
                   cpVars, tickerOn, tick, closeCount, sent, exitPath,
                   sessSink, sessStart, writtenAtDone, copyVars, hashed, closes>>

\* The range loop ends when ch is closed; the deferred Close calls run.
\* DoDeferred that defers no Close of the reader.
DoDeferred_noReader(t) == [r |-> FALSE, w |-> t.kind \in {"file", "download"}]

\* Which of the task's handles Do defers a Close of: those that implement
\* Close.  *os.File and the response body do; the io.MultiWriter and the
\* strings.Reader of a hash task do not.
DoDeferred(t) ==
    [r |-> t.kind \in {"file", "download"}, w |-> t.kind \in {"file", "download"}]

\* RangeEnds of a loop that stops as soon as no event is waiting.
RangeEnds_idle(cc, p) == p # "send"

\* `for event := range ch` ends when ch is closed and nothing is left to
\* receive.
RangeEnds(cc, p) == cc > 0 /\ p # "send"

DoReturn ==
    /\ doPc = "range"
    /\ RangeEnds(closeCount, pc)
    /\ LET d == DoDeferred(task)
       IN  /\ r' = IF d.r THEN [r EXCEPT !.open = FALSE] ELSE r
           /\ w' = IF d.w THEN [w EXCEPT !.open = FALSE] ELSE w
           /\ closes' = [r |-> closes.r + (IF d.r THEN 1 ELSE 0),
                         w |-> closes.w + (IF d.w THEN 1 ELSE 0)]
    /\ doPc' = "returned"
    /\ UNCHANGED <<envVars, dstFile, task, savedState, ctxErr, doVars, session,
                   recvd, calls, sessStart, writtenAtDone, copyVars, workerVars>>

(***************************************************************************)
(* Do of package task, built on the Copier: it wraps the caller's          *)
(* callbacks in closures that update the task, and hands them to the       *)
(* Copier's Do, which runs one session and calls them event by event.      *)
(***************************************************************************)
\* iocopy.New with its options, and the session the Copier's Do starts from
\* it: the worker's arguments and fresh locals.
CopierNew(bufSize, interval, isTotalKnown, tot, prevCopied) ==
    [bufSize |-> bufSize, interval |-> interval, isTotalKnown |-> isTotalKnown,
     total |-> tot, prevCopied |-> prevCopied,
     written |-> 0, oldWritten |-> 0, buf |-> <<>>, err |-> "nil"]

\* The closure passed as onWritten.
taskDoOnWritten(t, ev) ==
    [task |-> setCopied(t, EvCopied(ev)),
     calls |-> <<Call("onWritten", ev, "nil", NoState)>>]

\* The closure passed as onStop.
taskDoOnStop(t, ev) ==
    [task |-> setCopied(t, EvCopied(ev)),
     calls |-> <<Call("onStop", ev, ev.err, NoState)>>]

\* The closure passed as onOK.
taskDoOnOK(t, ev) ==
    [task |-> setCopied(t, EvCopied(ev)),
     calls |-> <<Call("onOK", ev, "nil", NoState)>>]

\* The closure passed as onError.
taskDoOnError(t, ev) ==
    [task |-> t, calls |-> <<ErrCall(ev.err)>>]

\* The Copier's Do calls the closure of the event it received.
CopierDoHandle(t, ev) ==
    CASE ev.kind = "Written" -> taskDoOnWritten(t, ev)
      [] ev.kind = "Stop" -> taskDoOnStop(t, ev)
      [] ev.kind = "OK" -> taskDoOnOK(t, ev)
      [] ev.kind = "Error" -> taskDoOnError(t, ev)

\* task.Do up to the start of the Copier's session.
taskDoStart ==
    /\ doPc = "ready"
    /\ session = 0
    /\ \E bufSize \in 1..MaxBufSize, ctx \in CtxAtCall :
          LET tt == total(task)
              c == copied(task)
          IN  /\ doVars' = [isTotalKnown |-> tt.isTotalKnown, total |-> tt.total,
                            copied |-> c, ctx |-> ctx]
              /\ cpVars' = CopierNew(bufSize, DefaultInterval, tt.isTotalKnown,
                                     tt.total, c)
              /\ ctxErr' = ctx
              /\ writtenAtDone' = IF ctx = "nil" THEN -1 ELSE 0
    /\ pc' = "init"
    /\ doPc' = "taskRange"
    /\ session' = session + 1
    /\ tickerOn' = FALSE
    /\ tick' = FALSE
    /\ outEv' = NoEvent
    /\ closeCount' = 0
    /\ sent' = <<>>
    /\ recvd' = <<>>
    /\ calls' = <<>>
    /\ exitPath' = "none"
    /\ sessSink' = <<>>
    /\ sessStart' = r.off
    /\ closes' = NoCloses
    /\ UNCHANGED <<envVars, dstFile, task, r, w, savedState, hashed, copyVars>>

\* The Copier's Do receives one event and calls its closure.
taskDoRecv ==
    /\ doPc = "taskRange"
    /\ pc = "send"
    /\ LET h == CopierDoHandle(task, outEv)
       IN  /\ task' = h.task
           /\ calls' = calls \o h.calls
    /\ recvd' = Append(recvd, outEv)
    /\ pc' = AfterSend(outEv.kind)
    /\ outEv' = NoEvent
    /\ UNCHANGED <<envVars, dstFile, r, w, savedState, ctxErr, doPc, doVars,
                   session, cpVars, tickerOn, tick, closeCount, sent, exitPath,
                   sessSink, sessStart, writtenAtDone, copyVars, hashed, closes>>

\* The Copier's Do returns when the channel is closed; task.Do's deferred
\* Close calls run.
taskDoReturn ==
    /\ doPc = "taskRange"
    /\ closeCount > 0
    /\ pc # "send"
    /\ LET d == DoDeferred(task)
       IN  /\ r' = IF d.r THEN [r EXCEPT !.open = FALSE] ELSE r
           /\ w' = IF d.w THEN [w EXCEPT !.open = FALSE] ELSE w
           /\ closes' = [r |-> closes.r + (IF d.r THEN 1 ELSE 0),
                         w |-> closes.w + (IF d.w THEN 1 ELSE 0)]
    /\ doPc' = "taskReturned"
    /\ UNCHANGED <<envVars, dstFile, task, savedState, ctxErr, doVars, session,
                   recvd, calls, sessStart, writtenAtDone, copyVars, workerVars>>

\* The intervals a caller passes: negative, zero, positive.
Intervals == {-1, 0, 80}

(***************************************************************************)
(* The Do that takes an interval, on a Task whose Writer() and Reader()    *)
(* return an error beside the handle.  The task is a file copy that opens  *)
(* its files in Writer() and Reader().                                     *)
(***************************************************************************)
\* The type switch of this Do's event loop: no snapshot on EventStop.
DoIntervalHandle(t, ev) ==
    CASE ev.kind = "Written" -> DoOnWritten(t, ev)
      [] ev.kind = "Stop" ->
            [task |-> setCopied(t, EvCopied(ev)),
             calls |-> <<Call("onStop", ev, ev.err, NoState)>>]
      [] ev.kind = "OK" -> DoOnOK(t, ev)
      [] ev.kind = "Error" -> DoOnError(t, ev)

\* The callbacks Do makes before it calls Start: onError for a failed
\* Writer(), onError for a failed Reader(); Do goes on after either.
DoIntervalOpenCalls(wOk, rOk) ==
    (IF wOk THEN <<>> ELSE <<ErrCall("writer error")>>)
    \o (IF rOk THEN <<>> ELSE <<ErrCall("reader error")>>)

\* Do, up to and including the call of Start.
DoIntervalStart ==
    /\ doPc = "notask"
    /\ \E bufSize \in 1..MaxBufSize, interval \in Intervals, ctx \in CtxAtCall,
          wOk \in BOOLEAN, rOk \in BOOLEAN :
          /\ task' = [kind |-> "file", Dst |-> "dst", Src |-> "src",
                      Size |-> Len(srcData), Copied |-> 0]
          /\ doVars' = [isTotalKnown |-> TRUE, total |-> Len(srcData),
                        copied |-> 0, ctx |-> ctx]
          /\ w' = IF wOk THEN OsCreate ELSE NilHandle
          /\ r' = IF rOk THEN OsOpen ELSE NilHandle
          /\ dstFile' = IF wOk THEN <<>> ELSE dstFile
          /\ dstExists' = (wOk \/ dstExists)
          /\ calls' = DoIntervalOpenCalls(wOk, rOk)
          /\ cpVars' = Start(bufSize, interval, TRUE, Len(srcData), 0)
          /\ ctxErr' = ctx
          /\ writtenAtDone' = IF ctx = "nil" THEN -1 ELSE 0
    /\ pc' = "init"
    /\ doPc' = "ivRange"
    /\ session' = session + 1
    /\ tickerOn' = FALSE
    /\ tick' = FALSE
    /\ outEv' = NoEvent
    /\ closeCount' = 0
    /\ sent' = <<>>
    /\ recvd' = <<>>
    /\ exitPath' = "none"
    /\ sessSink' = <<>>
    /\ sessStart' = 0
    /\ closes' = NoCloses
    /\ UNCHANGED <<srvVars, sideVars, ctor, savedState, copyVars, hashed>>

\* One iteration of `for event := range ch`.
DoIntervalRecv ==
    /\ doPc = "ivRange"
    /\ pc = "send"
    /\ LET h == DoIntervalHandle(task, outEv)
       IN  /\ task' = h.task
           /\ calls' = calls \o h.calls
    /\ recvd' = Append(recvd, outEv)
    /\ pc' = AfterSend(outEv.kind)
    /\ outEv' = NoEvent
    /\ UNCHANGED <<envVars, dstFile, r, w, savedState, ctxErr, doPc, doVars,
                   session, cpVars, tickerOn, tick, closeCount, sent, exitPath,
                   sessSink, sessStart, writtenAtDone, copyVars, hashed, closes>>

\* The range loop ends when ch is closed; the deferred Close calls of the
\* handles that are not nil run.
DoIntervalReturn ==
    /\ doPc = "ivRange"
    /\ RangeEnds(closeCount, pc)
    /\ r' = IF IsNil(r) THEN r ELSE [r EXCEPT !.open = FALSE]
    /\ w' = IF IsNil(w) THEN w ELSE [w EXCEPT !.open = FALSE]
    /\ closes' = [r |-> closes.r + (IF IsNil(r) THEN 0 ELSE 1),
                  w |-> closes.w + (IF IsNil(w) THEN 0 ELSE 1)]
    /\ doPc' = "ivReturned"
    /\ UNCHANGED <<envVars, dstFile, task, savedState, ctxErr, doVars, session,
                   recvd, calls, sessStart, writtenAtDone, copyVars, workerVars>>

(***************************************************************************)
(* A caller that uses Start itself, as ExampleStart does: the response     *)
(* body is the reader, one hash accumulator the writer, and the interval   *)
(* is the caller's choice.                                                 *)
(***************************************************************************)
StartCall ==
    /\ doPc = "notask"
    /\ \E bufSize \in 1..MaxBufSize, interval \in Intervals, ctx \in CtxAtCall :
          LET g == GetResp
          IN  /\ r' = g.resp
              /\ doVars' = [isTotalKnown |-> g.isSizeKnown, total |-> g.size,
                            copied |-> 0, ctx |-> ctx]
              /\ cpVars' = Start(bufSize, interval, g.isSizeKnown, g.size, 0)
              /\ ctxErr' = ctx
              /\ writtenAtDone' = IF ctx = "nil" THEN -1 ELSE 0
    /\ w' = HashWriter
    /\ hashed' = <<>>
    /\ pc' = "init"
    /\ doPc' = "startRange"
    /\ session' = session + 1
    /\ tickerOn' = FALSE
    /\ tick' = FALSE
    /\ outEv' = NoEvent
    /\ closeCount' = 0
    /\ sent' = <<>>
    /\ recvd' = <<>>
    /\ calls' = <<>>
    /\ exitPath' = "none"
    /\ sessSink' = <<>>
    /\ sessStart' = 0
    /\ closes' = NoCloses
    /\ UNCHANGED <<envVars, dstFile, task, savedState, copyVars>>

\* One iteration of the caller's range loop: on EventStop it keeps the
\* copied count and the accumulator's exported state.
StartRecv ==
    /\ doPc = "startRange"
    /\ pc = "send"
    /\ IF outEv.kind = "Stop"
       THEN /\ doVars' = [doVars EXCEPT !.copied = EvCopied(outEv)]
            /\ savedState' = [state |-> hashed]
       ELSE UNCHANGED <<doVars, savedState>>
    /\ recvd' = Append(recvd, outEv)
    /\ pc' = AfterSend(outEv.kind)
    /\ outEv' = NoEvent
    /\ UNCHANGED <<envVars, dstFile, task, r, w, ctxErr, doPc, session, calls,
                   cpVars, tickerOn, tick, closeCount, sent, exitPath,
                   sessSink, sessStart, writtenAtDone, copyVars, hashed, closes>>

\* The caller's loop ends when ch is closed; the deferred resp.Body.Close
\* runs.
StartReturn ==
    /\ doPc = "startRange"
    /\ closeCount > 0
    /\ pc # "send"
    /\ r' = [r EXCEPT !.open = FALSE]
    /\ closes' = [closes EXCEPT !.r = @ + 1]
    /\ doPc' = "startDone"
    /\ UNCHANGED <<envVars, dstFile, task, w, savedState, ctxErr, doVars, session,
                   recvd, calls, sessStart, writtenAtDone, copyVars, workerVars>>

\* A caller of Start that leaves its loop before the terminal event has
\* arrived and receives nothing more from the channel Start returned.
StartAbandon ==
    /\ doPc = "startRange"
    /\ pc \in {"init", "select", "write", "send"}
    /\ ~(pc = "send" /\ outEv.kind # "Written")
    /\ doPc' = "startAbandoned"
    /\ UNCHANGED <<envVars, dstFile, task, r, w, savedState, ctxErr, doVars,
                   session, recvd, calls, sessStart, writtenAtDone, copyVars,
                   closes, workerVars>>

(***************************************************************************)
(* package copyfile of src/task: Load decodes a snapshot with              *)
(* Task.UnmarshalJSON, which hands the document and the *Task to           *)
(* json.Unmarshal.  json.Unmarshal checks the syntax of the document and   *)
(* then, the *Task being a json.Unmarshaler, calls its UnmarshalJSON with  *)
(* the document.                                                           *)
(***************************************************************************)
loadRest == <<srvVars, prog, cwp, dstExists, ctor, dstFile, task, r, w,
              savedState, sessionVars, workerVars>>

\* The documents Load is given: a snapshot of a copy, well-formed or not.
LoadDocs ==
    {[dst |-> "dst", src |-> "src", copied |-> n] : n \in 0..MaxSrcLen}

\* Load: t := &Task{}; t.UnmarshalJSON(data).
LoadCall ==
    /\ doPc = "notask"
    /\ \E doc \in LoadDocs, valid \in BOOLEAN :
          load' = [NoLoad EXCEPT !.pc = "UnmarshalJSON", !.depth = 1,
                                 !.valid = valid, !.doc = doc]
    /\ doPc' = "load"
    /\ UNCHANGED loadRest

\* Task.UnmarshalJSON, first statement: json.Unmarshal(data, t).  With
\* the stack full the new frame cannot be made and the process ends.
LoadUnmarshalJSON ==
    /\ load.pc = "UnmarshalJSON"
    /\ IF load.depth > MaxStack
       THEN /\ load' = [load EXCEPT !.pc = "overflow"]
            /\ doPc' = "crashed"
       ELSE /\ load' = [load EXCEPT !.pc = "jsonUnmarshal"]
            /\ UNCHANGED doPc
    /\ UNCHANGED loadRest

\* json.Unmarshal: a syntax error is returned at once; a valid document
\* goes to the UnmarshalJSON of the value, the *Task being a
\* json.Unmarshaler and the receiver being passed as it is.  The rest of
\* Task.UnmarshalJSON, which opens the files, runs only after a
\* json.Unmarshal that returned nil.
LoadJsonUnmarshal ==
    /\ load.pc = "jsonUnmarshal"
    /\ IF ~load.valid
       THEN load' = [load EXCEPT !.pc = "ret", !.err = "syntax error"]
       ELSE load' = [load EXCEPT !.pc = "UnmarshalJSON", !.depth = @ + 1]
    /\ UNCHANGED <<doPc, loadRest>>

\* Load returns the task or the error.
LoadReturn ==
    /\ doPc = "load"
    /\ load.pc = "ret"
    /\ doPc' = "loadDone"
    /\ UNCHANGED <<load, loadRest>>

(***************************************************************************)
(* package progress.  A Progress is an io.Writer that counts the bytes it  *)
(* is given; Start runs a goroutine that reports the count on every tick   *)
(* and leaves when a value arrives on chExit or ctx is done.  The caller   *)
(* is ExampleNew: a copy writes to the Progress, and the caller sends on   *)
(* chExit or its context ends.                                             *)
(***************************************************************************)
progressRest == <<srvVars, cwp, load, dstExists, ctor, dstFile, task, r, w, savedState,
                  sessionVars, workerVars>>

\* Progress.callback: report current when fn is set and current has changed
\* since the last report.  reported keeps the values handed to fn.
ProgressCallback(p) ==
    IF p.hasFn /\ p.current # p.old
    THEN [p EXCEPT !.reported = Append(@, p.current), !.old = p.current]
    ELSE p

\* The first exit signal fixes the count that had been written before it.
ProgressSignalled(p) ==
    IF p.atSignal = -1 THEN [p EXCEPT !.atSignal = p.current] ELSE p

\* progress.New and Progress.Start: the goroutine is at its select.
ProgressStart ==
    /\ doPc = "notask"
    /\ \E fn \in BOOLEAN, ctx \in CtxAtCall :
          prog' = [NoProgress EXCEPT !.pc = "select", !.hasFn = fn, !.ctx = ctx,
                                     !.atSignal = IF ctx = "nil" THEN -1 ELSE 0]
    /\ doPc' = "progress"
    /\ UNCHANGED progressRest

\* Progress.Write: the copy hands the Progress the n bytes it wrote.
ProgressWrite ==
    /\ doPc = "progress"
    /\ prog.pc = "select"
    /\ \E n \in 1..MaxBufSize :
          /\ prog.current + n <= Len(srcData)
          /\ prog' = [prog EXCEPT !.current = @ + n]
    /\ UNCHANGED <<doPc, progressRest>>

\* time.Tick(p.interval) delivers a tick.
ProgressTick ==
    /\ doPc = "progress"
    /\ prog.pc = "select"
    /\ ~prog.tick
    /\ prog' = [prog EXCEPT !.tick = TRUE]
    /\ UNCHANGED <<doPc, progressRest>>

\* The caller sends on chExit.
ProgressSendExit ==
    /\ doPc = "progress"
    /\ prog.chExit = "empty"
    /\ prog' = [ProgressSignalled(prog) EXCEPT !.chExit = "sent"]
    /\ UNCHANGED <<doPc, progressRest>>

\* The caller's context is cancelled or its deadline passes.
ProgressCtxEnds ==
    /\ doPc = "progress"
    /\ prog.ctx = "nil"
    /\ \E e \in {"Canceled", "DeadlineExceeded"} :
          prog' = [ProgressSignalled(prog) EXCEPT !.ctx = e]
    /\ UNCHANGED <<doPc, progressRest>>

\* case <-chExit: callback, return.
progressOnExit ==
    /\ prog.pc = "select"
    /\ prog.chExit = "sent"
    /\ prog' = [ProgressCallback(prog) EXCEPT !.chExit = "taken", !.pc = "exited",
                                              !.exitBy = "chExit",
                                              !.atExit = prog.current]
    /\ UNCHANGED <<doPc, progressRest>>

\* case <-ctx.Done(): return.
progressOnCtxDone ==
    /\ prog.pc = "select"
    /\ prog.ctx # "nil"
    /\ prog' = [prog EXCEPT !.pc = "exited", !.exitBy = "ctx",
                            !.atExit = prog.current]
    /\ UNCHANGED <<doPc, progressRest>>

\* case <-ch: callback.
progressOnTick ==
    /\ prog.pc = "select"
    /\ prog.tick
    /\ prog' = [ProgressCallback(prog) EXCEPT !.tick = FALSE]
    /\ UNCHANGED <<doPc, progressRest>>

(***************************************************************************)
(* Copy and CopyBuffer: io.Copy / io.CopyBuffer over a reader that looks   *)
(* at the context before every read.  The caller is ExampleCopy: a first   *)
(* call under a context that can end, and, if that call was stopped, a     *)
(* second call on the rest of the stream with the same hash and a context  *)
(* that never ends.                                                        *)
(***************************************************************************)
copyRest == <<envVars, dstFile, task, savedState, session, sent, recvd, calls,
              sessStart, writtenAtDone, closes, doVars, pc, cpVars, tickerOn,
              tick, outEv, closeCount, exitPath, sessSink>>

\* Copy uses io.Copy's buffer of 32 KiB; CopyBuffer the caller's buffer.
CopyBufSizes == {DefaultBufSize} \cup (1..MaxBufSize)

\* ctxDone that never sees the context as done.
ctxDone_never(ctx) == FALSE

\* case <-ctx.Done() of the wrapping reader's select.
ctxDone(ctx) == ctx # "nil"

CopyCall ==
    /\ doPc = "notask"
    /\ r' = OsOpen
    /\ w' = HashWriter
    /\ hashed' = <<>>
    /\ ctxErr' \in CtxAtCall
    /\ \E bufSize \in CopyBufSizes :
          copyVars' = [NoCopy EXCEPT !.pc = "read", !.bufSize = bufSize]
    /\ doPc' = "copy1"
    /\ UNCHANGED copyRest

\* The context of the first call ends.
CopyCtxDone ==
    /\ doPc = "copy1"
    /\ ctxErr = "nil"
    /\ ctxErr' \in {"Canceled", "DeadlineExceeded"}
    /\ UNCHANGED <<copyRest, r, w, hashed, copyVars, doPc>>

\* One Read of the wrapping reader, and what io.Copy's loop does with a
\* read of no bytes.
CopyRead ==
    /\ copyVars.pc = "read"
    /\ IF ctxDone(ctxErr)
       THEN /\ copyVars' = [copyVars EXCEPT !.pc = "ret", !.er = ctxErr, !.err = ctxErr]
            /\ UNCHANGED r
       ELSE \E res \in ReadResults(srcData, r.off, copyVars.bufSize) :
               /\ r' = [r EXCEPT !.off = @ + res.n]
               /\ copyVars' =
                     IF res.n > 0
                     THEN [copyVars EXCEPT !.pc = "write", !.buf = res.data,
                                           !.er = res.err]
                     ELSE [copyVars EXCEPT !.pc = "ret", !.er = res.err,
                                           !.err = IF res.err = "EOF" THEN "nil"
                                                   ELSE res.err]
    /\ UNCHANGED <<copyRest, w, hashed, ctxErr, doPc>>

\* io.Copy's loop after a read of nr > 0 bytes: the write, written += nw,
\* then the write's error, then the read's.
CopyWrite ==
    /\ copyVars.pc = "write"
    /\ \E wr \in WriteResults(copyVars.buf) :
          /\ hashed' = hashed \o SubSeq(copyVars.buf, 1, wr.n)
          /\ copyVars' =
                [copyVars EXCEPT
                    !.written = @ + wr.n,
                    !.buf = <<>>,
                    !.pc = IF wr.err = "nil" /\ copyVars.er = "nil" THEN "read"
                           ELSE "ret",
                    !.err = IF wr.err # "nil" THEN wr.err
                            ELSE IF copyVars.er = "EOF" THEN "nil"
                            ELSE copyVars.er]
    /\ UNCHANGED <<copyRest, r, w, ctxErr, doPc>>

\* The caller after the first call: stopped by the context, it asks for the
\* rest of the stream from offset n and calls Copy again; otherwise it is
\* done.
CopyResume ==
    /\ doPc = "copy1"
    /\ copyVars.pc = "ret"
    /\ IF copyVars.err \in {"Canceled", "DeadlineExceeded"}
       THEN /\ r' = GetRespOfRangeStart(copyVars.written).resp
            /\ ctxErr' = "nil"
            /\ copyVars' = [copyVars EXCEPT !.pc = "read", !.written = 0,
                                            !.er = "nil", !.err = "nil",
                                            !.n = copyVars.written]
            /\ doPc' = "copy2"
       ELSE /\ doPc' = "copyDone"
            /\ UNCHANGED <<r, ctxErr, copyVars>>
    /\ UNCHANGED <<copyRest, w, hashed>>

\* The caller after the second call.
CopyFinish ==
    /\ doPc = "copy2"
    /\ copyVars.pc = "ret"
    /\ doPc' = "copyDone"
    /\ UNCHANGED <<copyRest, r, w, hashed, ctxErr, copyVars>>

(***************************************************************************)
(* CopyWithProgress and CopyBufferWithProgress: io.Copy / io.CopyBuffer    *)
(* over a reader and a writer that both look at the context first; the     *)
(* writer reports progress to fn after a write without error.  A percent   *)
(* is kept as the fraction <<numerator, denominator>> it is computed from. *)
(***************************************************************************)
cwpRest == <<srvVars, prog, load, dstExists,
             ctor, dstFile, task, savedState,
             session, sent, recvd, calls, sessStart, writtenAtDone, closes,
             doVars, pc, cpVars, tickerOn, tick, outEv, closeCount, exitPath,
             sessSink>>

\* computePercent of part_012, as a fraction.
computePercent(tot, prev, current) ==
    IF tot = 0 THEN <<100, 1>>
    ELSE IF tot < 0 THEN <<0, 1>>
    ELSE IF prev + current < 0 THEN <<0, 1>>
    ELSE <<(prev + current) * 100, tot>>

\* percent != oldPercent
PercentDiffers(a, b) == a[1] * b[2] # b[1] * a[2]

\* What the wrapping writer does to the progress state after dst.Write
\* returned n without error.
cwpReport(c, n) ==
    IF ~c.fn THEN c
    ELSE LET cur == c.current + n
             pct == computePercent(c.total, c.prev, cur)
         IN  IF c.total = c.prev + cur
             THEN [c EXCEPT !.current = cur,
                            !.reports = Append(@, [current |-> cur,
                                                   percent |-> <<100, 1>>])]
             ELSE IF PercentDiffers(pct, c.oldPercent)
             THEN [c EXCEPT !.current = cur, !.oldPercent = pct,
                            !.reports = Append(@, [current |-> cur,
                                                   percent |-> pct])]
             ELSE [c EXCEPT !.current = cur]

\* The call, with prev = 0 on a fresh stream; total is the stream's length
\* or negative when it is unknown.
CopyWithProgressCall ==
    /\ doPc = "notask"
    /\ r' = OsOpen
    /\ w' = HashWriter
    /\ hashed' = <<>>
    /\ ctxErr' \in CtxAtCall
    /\ \E bufSize \in CopyBufSizes, fn \in BOOLEAN, tot \in {Len(srcData), -1} :
          /\ copyVars' = [NoCopy EXCEPT !.pc = "cwpRead", !.bufSize = bufSize]
          /\ cwp' = [NoCwp EXCEPT !.fn = fn, !.total = tot]
    /\ doPc' = "cwp"
    /\ UNCHANGED cwpRest

\* The context of the call ends while the call runs.
CopyWithProgressCtxDone ==
    /\ doPc = "cwp"
    /\ copyVars.pc \in {"cwpRead", "cwpWrite"}
    /\ ctxErr = "nil"
    /\ ctxErr' \in {"Canceled", "DeadlineExceeded"}
    /\ UNCHANGED <<cwpRest, r, w, hashed, copyVars, cwp, doPc>>

\* One Read of the wrapping reader, and what io.Copy's loop does with a
\* read of no bytes.
CopyWithProgressRead ==
    /\ copyVars.pc = "cwpRead"
    /\ IF ctxDone(ctxErr)
       THEN /\ copyVars' = [copyVars EXCEPT !.pc = "ret", !.er = ctxErr, !.err = ctxErr]
            /\ UNCHANGED r
       ELSE \E res \in ReadResults(srcData, r.off, copyVars.bufSize) :
               /\ r' = [r EXCEPT !.off = @ + res.n]
               /\ copyVars' =
                     IF res.n > 0
                     THEN [copyVars EXCEPT !.pc = "cwpWrite", !.buf = res.data,
                                           !.er = res.err]
                     ELSE [copyVars EXCEPT !.pc = "ret", !.er = res.err,
                                           !.err = IF res.err = "EOF" THEN "nil"
                                                   ELSE res.err]
    /\ UNCHANGED <<cwpRest, w, hashed, ctxErr, cwp, doPc>>

\* One Write of the wrapping writer inside io.Copy's loop: with the context
\* done it returns 0 and ctx.Err() and the bytes just read are not written;
\* otherwise dst.Write, then the report to fn.  io.Copy adds nw to written
\* and stops on the write's error, then on the read's.
CopyWithProgressWrite ==
    /\ copyVars.pc = "cwpWrite"
    /\ IF ctxDone(ctxErr)
       THEN /\ copyVars' = [copyVars EXCEPT !.buf = <<>>, !.pc = "ret",
                                            !.err = ctxErr]
            /\ UNCHANGED <<hashed, cwp>>
       ELSE \E wr \in WriteResults(copyVars.buf) :
               /\ hashed' = hashed \o SubSeq(copyVars.buf, 1, wr.n)
               /\ cwp' = IF wr.err = "nil" THEN cwpReport(cwp, wr.n) ELSE cwp
               /\ copyVars' =
                     [copyVars EXCEPT
                         !.written = @ + wr.n,
                         !.buf = <<>>,
                         !.pc = IF wr.err = "nil" /\ copyVars.er = "nil"
                                THEN "cwpRead" ELSE "ret",
                         !.err = IF wr.err # "nil" THEN wr.err
                                 ELSE IF copyVars.er = "EOF" THEN "nil"
                                 ELSE copyVars.er]
    /\ UNCHANGED <<cwpRest, r, w, ctxErr, doPc>>

\* The call returns written and err to its caller.
CopyWithProgressReturn ==
    /\ doPc = "cwp"
    /\ copyVars.pc = "ret"
    /\ doPc' = "cwpDone"
    /\ UNCHANGED <<cwpRest, r, w, hashed, ctxErr, copyVars, cwp>>

(***************************************************************************)
(* The session's context and the ticker.                                   *)
(***************************************************************************)
Cancel ==
    /\ doPc \in {"range", "startRange", "startAbandoned", "taskRange", "ivRange"}
    /\ ctxErr = "nil"
    /\ ctxErr' = "Canceled"
    /\ writtenAtDone' = cpVars.written
    /\ UNCHANGED <<envVars, dstFile, task, r, w, savedState, doPc, doVars,
                   session, workerVars, recvd, calls, sessStart, closes,
                   copyVars>>

Deadline ==
    /\ doPc \in {"range", "startRange", "startAbandoned", "taskRange", "ivRange"}
    /\ ctxErr = "nil"
    /\ ctxErr' = "DeadlineExceeded"
    /\ writtenAtDone' = cpVars.written
    /\ UNCHANGED <<envVars, dstFile, task, r, w, savedState, doPc, doVars,
                   session, workerVars, recvd, calls, sessStart, closes,
                   copyVars>>

Tick ==
    /\ tickerOn
    /\ ~tick
    /\ tick' = TRUE
    /\ UNCHANGED <<envVars, dstFile, task, r, w, savedState, ctxErr, doPc,
                   doVars, session, pc, cpVars, tickerOn, outEv, closeCount,
                   sent, recvd, calls, exitPath, sessSink, sessStart,
                   writtenAtDone, copyVars, hashed,
                   closes>>

(***************************************************************************)
(* cp (iocopy.go): the copy worker.  pc is "init" before the loop,         *)
(* "select" at the select statement, "write" between the Read and the      *)
(* Write of the default branch, "send" while a send on ch waits for the    *)
(* receiver, "exit" when the function returns and its deferred function    *)
(* has yet to run, "done" afterwards.                                      *)
(***************************************************************************)
restVars == <<envVars, task, savedState, ctxErr, doPc, doVars, session,
              recvd, calls, sessStart, writtenAtDone, copyVars, closes>>

\* Buffer and ticker set-up.
\* TickerRuns that leaves the ticker running whatever the interval.
TickerRuns_always(interval) == TRUE

\* The ticker is stopped at once when the interval is zero or negative.
TickerRuns(interval) == interval > 0

\* ShouldReport that reports on every tick.
ShouldReport_always(written, oldWritten) == TRUE

\* A tick reports only when written has changed since the last report.
ShouldReport(written, oldWritten) == written # oldWritten

cpInit ==
    /\ pc = "init"
    /\ cpVars' = [cpVars EXCEPT !.bufSize = IF @ = 0 THEN DefaultBufSize ELSE @]
    /\ tickerOn' = TickerRuns(cpVars.interval)
    \* A ticker made with DefaultInterval and stopped at once may already
    \* have delivered one tick if the worker was held up in between.
    /\ IF TickerRuns(cpVars.interval) THEN tick' = tick ELSE tick' \in BOOLEAN
    /\ pc' = "select"
    /\ UNCHANGED <<restVars, dstFile, r, w, outEv, closeCount, sent,
                   exitPath, sessSink, hashed>>

\* case <-ticker.C
cpTick ==
    /\ pc = "select"
    /\ tick
    /\ tick' = FALSE
    /\ IF ShouldReport(cpVars.written, cpVars.oldWritten)
       THEN LET ev == newEventWritten(cpVars.isTotalKnown, cpVars.total,
                                      cpVars.prevCopied, cpVars.written, FALSE)
            IN  /\ cpVars' = [cpVars EXCEPT !.oldWritten = cpVars.written]
                /\ outEv' = ev
                /\ sent' = Append(sent, ev)
                /\ pc' = "send"
       ELSE UNCHANGED <<cpVars, outEv, sent, pc>>
    /\ UNCHANGED <<restVars, dstFile, r, w, tickerOn, closeCount, exitPath,
                   sessSink, hashed>>

\* case <-ctx.Done()
cpCtxDone ==
    /\ pc = "select"
    /\ ctxErr # "nil"
    /\ tickerOn' = FALSE
    /\ LET ev == newEventStop(ctxErr, cpVars.isTotalKnown, cpVars.total,
                              cpVars.prevCopied, cpVars.written)
       IN  /\ outEv' = ev
           /\ sent' = Append(sent, ev)
    /\ pc' = "send"
    /\ exitPath' = "ctx"
    /\ UNCHANGED <<restVars, dstFile, r, w, cpVars, tick, closeCount, sessSink,
                   hashed>>

\* ReadBranch that takes io.EOF as the end even when bytes came with it.
ReadBranch_eofFirst(n, err) ==
    IF err # "nil" /\ err # "EOF" THEN "error"
    ELSE IF n = 0 \/ err = "EOF" THEN "ok"
    ELSE "write"

\* ReadBranch that ends the copy on io.EOF without writing the bytes that
\* came with it.
ReadBranch_eofIsEnd(n, err) ==
    IF err = "EOF" THEN "ok"
    ELSE IF err # "nil" THEN "error"
    ELSE IF n = 0 THEN "ok" ELSE "write"

\* ReadBranch that writes the bytes a read returned before it looks at the
\* read's error.
ReadBranch_writeFirst(n, err) ==
    IF n > 0 THEN "write"
    ELSE IF err # "nil" /\ err # "EOF" THEN "error"
    ELSE "ok"

\* What the default branch does with the result of src.Read.
ReadBranch(n, err) ==
    IF err # "nil" /\ err # "EOF" THEN "error"
    ELSE IF n = 0 THEN "ok"
    ELSE "write"

\* DefaultReady that does not look at ctx.Done().
DefaultReady_ignoreCtx(tk, ctx) == ~tk

\* DefaultReady that lets the default branch run whatever is ready.
DefaultReady_always(tk, ctx) == TRUE

\* DefaultReady of a select that has no default branch.
DefaultReady_never(tk, ctx) == FALSE

\* select takes its default branch only when no other case is ready:
\* no tick is waiting in ticker.C and ctx.Done() is not closed.
DefaultReady(tk, ctx) == ~tk /\ ctx = "nil"

\* default: src.Read(buf).  It is taken only when neither channel is ready.
cpRead ==
    /\ pc = "select"
    /\ DefaultReady(tick, ctxErr)
    /\ ~IsNil(r)
    /\ \E res \in ReadResults(srcData, r.off, cpVars.bufSize) :
          /\ r' = [r EXCEPT !.off = @ + res.n]
          /\ CASE ReadBranch(res.n, res.err) = "error" ->
                    LET ev == newEventError(res.err)
                    IN  /\ outEv' = ev
                        /\ sent' = Append(sent, ev)
                        /\ pc' = "send"
                        /\ exitPath' = "readErr"
                        /\ cpVars' = [cpVars EXCEPT !.err = res.err]
                        /\ UNCHANGED tickerOn
               [] ReadBranch(res.n, res.err) = "ok" ->
                    LET ev == newEventOK(cpVars.isTotalKnown, cpVars.total,
                                         cpVars.prevCopied, cpVars.written)
                    IN  /\ tickerOn' = FALSE
                        /\ outEv' = ev
                        /\ sent' = Append(sent, ev)
                        /\ pc' = "send"
                        /\ exitPath' = "eof"
                        /\ cpVars' = [cpVars EXCEPT !.err = res.err]
               [] ReadBranch(res.n, res.err) = "write" ->
                    /\ cpVars' = [cpVars EXCEPT !.buf = res.data, !.err = res.err]
                    /\ pc' = "write"
                    /\ UNCHANGED <<outEv, sent, exitPath, tickerOn>>
    /\ UNCHANGED <<restVars, dstFile, w, tick, closeCount, sessSink, hashed>>

\* Accumulate that counts the writes, not their bytes.
Accumulate_count(written, n) == written + 1

\* Accumulate that assigns instead of adding.
Accumulate_assign(written, n) == n

\* written += uint64(n)
Accumulate(written, n) == written + n

\* WriteBranch that goes on whatever dst.Write returned.
WriteBranch_ignoreErr(err) == "ok"

\* What the default branch does with the error of dst.Write.
WriteBranch(err) == IF err # "nil" THEN "error" ELSE "ok"

\* default, continued: dst.Write(buf[:n]) and written += n.
\* The sink of the session: the destination file of a file or download
\* task, the hash accumulators otherwise.
SinkIsFile == task.kind \in {"file", "download"}
\* A nil writer has no sink and has received nothing.
SinkContent ==
    IF IsNil(w) THEN <<>> ELSE IF SinkIsFile THEN dstFile ELSE hashed

cpWrite ==
    /\ pc = "write"
    /\ ~IsNil(w)
    /\ \E wr \in WriteResults(cpVars.buf) :
          LET p == SubSeq(cpVars.buf, 1, wr.n)
              pos == WritePos(w, SinkContent)
              new == WriteAt(SinkContent, pos, p)
          IN  /\ dstFile' = IF SinkIsFile THEN new ELSE dstFile
              /\ hashed' = IF SinkIsFile THEN hashed ELSE new
              /\ w' = [w EXCEPT !.off = pos + wr.n]
              /\ sessSink' = sessSink \o p
              /\ IF WriteBranch(wr.err) = "error"
                 THEN LET ev == newEventError(wr.err)
                      IN  /\ outEv' = ev
                          /\ sent' = Append(sent, ev)
                          /\ pc' = "send"
                          /\ exitPath' = "writeErr"
                          /\ cpVars' = [cpVars EXCEPT !.buf = <<>>, !.err = wr.err]
                 ELSE /\ cpVars' = [cpVars EXCEPT !.written = Accumulate(@, wr.n),
                                                  !.buf = <<>>,
                                                  !.err = wr.err]
                      /\ pc' = "select"
                      /\ UNCHANGED <<outEv, sent, exitPath>>
    /\ UNCHANGED <<restVars, r, tickerOn, tick, closeCount>>

\* default, with a nil src or dst: the method call on the nil interface
\* panics in the worker goroutine, which ends the process.
cpPanic ==
    /\ \/ pc = "select" /\ DefaultReady(tick, ctxErr) /\ IsNil(r)
       \/ pc = "write" /\ IsNil(w)
    /\ pc' = "panic"
    /\ doPc' = "crashed"
    /\ UNCHANGED <<envVars, dstFile, task, r, w, savedState, ctxErr, doVars,
                   session, recvd, calls, sessStart, writtenAtDone, copyVars,
                   closes, cpVars, tickerOn, tick, outEv, closeCount, sent,
                   exitPath, sessSink, hashed>>

\* cpExit without the close of the channel.
cpExit_noClose ==
    /\ pc = "exit"
    /\ tickerOn' = FALSE
    /\ pc' = "done"
    /\ UNCHANGED <<restVars, dstFile, r, w, cpVars, tick, outEv, closeCount,
                   sent, exitPath, sessSink, hashed>>

\* The deferred function: stop the ticker and close the channel.
cpExit ==
    /\ pc = "exit"
    /\ tickerOn' = FALSE
    /\ closeCount' = closeCount + 1
    /\ pc' = "done"
    /\ UNCHANGED <<restVars, dstFile, r, w, cpVars, tick, outEv, sent,
                   exitPath, sessSink, hashed>>

Next ==
    \/ NewCopyFileTask
    \/ NewCopyFileFromFSTask
    \/ NewDownloadTask
    \/ NewHashTask
    \/ LoadCopyFileTask
    \/ LoadDownloadTask
    \/ DoStart
    \/ DoRecv
    \/ DoReturn
    \/ taskDoStart
    \/ taskDoRecv
    \/ taskDoReturn
    \/ CopyCall
    \/ CopyCtxDone
    \/ CopyRead
    \/ CopyWrite
    \/ CopyResume
    \/ CopyFinish
    \/ StartCall
    \/ StartRecv
    \/ StartReturn
    \/ StartAbandon
    \/ DoIntervalStart
    \/ DoIntervalRecv
    \/ DoIntervalReturn
    \/ CopyWithProgressCall
    \/ CopyWithProgressCtxDone
    \/ CopyWithProgressRead
    \/ CopyWithProgressWrite
    \/ CopyWithProgressReturn
    \/ LoadCall
    \/ LoadUnmarshalJSON
    \/ LoadJsonUnmarshal
    \/ LoadReturn
    \/ ProgressStart
    \/ ProgressWrite
    \/ ProgressTick
    \/ ProgressSendExit
    \/ ProgressCtxEnds
    \/ progressOnExit
    \/ progressOnCtxDone
    \/ progressOnTick
    \/ Cancel
    \/ Deadline
    \/ Tick
    \/ cpInit
    \/ cpTick
    \/ cpCtxDone
    \/ cpRead
    \/ cpWrite
    \/ cpPanic
    \/ cpExit

Spec == Init /\ [][Next]_vars

\* Scheduling of a session run by Do.  The worker goroutine is never held
\* for ever at a step it can take, every src.Read and dst.Write returns, and
\* the caller's range loop keeps receiving.  The read of the default branch
\* is strongly fair: the ticker's period is positive, so ticker.C is empty
\* again and again however often a tick arrives, and the select then takes
\* its default branch.  Ticks and cancellation are left to the environment.
Fairness ==
    /\ WF_vars(cpInit)
    /\ WF_vars(cpTick)
    /\ WF_vars(cpCtxDone)
    /\ SF_vars(cpRead)
    /\ WF_vars(cpWrite)
    /\ WF_vars(cpExit)
    /\ WF_vars(DoRecv)
    /\ WF_vars(DoReturn)

LiveSpec == Init /\ [][Next]_vars /\ Fairness

\* Scheduling of any session: as Fairness, and every caller that is still
\* in its receive loop keeps receiving.
ReceiveFairness ==
    /\ Fairness
    /\ WF_vars(StartRecv)
    /\ WF_vars(taskDoRecv)

WorkerSpec == Init /\ [][Next]_vars /\ ReceiveFairness

(***************************************************************************)
(* The destination one uninterrupted session leaves: the loop of cp run    *)
(* from offset off of the source with full buffers, no tick, no            *)
(* cancellation and no failure, writing at the end of dst.                 *)
(***************************************************************************)
RECURSIVE UninterruptedCopy(_, _, _, _)
UninterruptedCopy(data, off, bufSize, dst) ==
    IF off >= Len(data) THEN dst
    ELSE LET n == Min(bufSize, Len(data) - off)
         IN  UninterruptedCopy(data, off + n, bufSize,
                               WriteAt(dst, Len(dst), SubSeq(data, off + 1, off + n)))

(***************************************************************************)
(* Properties.                                                             *)
(***************************************************************************)
Last(s) == s[Len(s)]
TerminalCalls == {i \in 1..Len(calls) : calls[i].name \in {"onOK", "onStop", "onError"}}
TaskCopied(t) == IF t.kind = "none" THEN 0 ELSE copied(t)
WorkerReturned == pc \in {"exit", "done"}

\* C1: in a session, a terminal event (Stop, Error, OK) is the last event
\* the worker sends, there is at most one of them, and a worker that has
\* returned has sent one.
C1_OneTerminalEventLast ==
    /\ \A i \in 1..Len(sent) : IsTerminal(sent[i]) => i = Len(sent)
    /\ WorkerReturned => (sent # <<>> /\ IsTerminal(Last(sent)))

C1_Witness ==
    /\ pc = "done"
    /\ Len(sent) >= 3
    /\ Last(sent).kind = "OK"

\* C2: on every exit path the channel is closed exactly once, after the
\* terminal event has been sent and received, and never without one.
C2_ClosedOnceAfterTerminal ==
    /\ closeCount <= 1
    /\ pc = "done" => closeCount = 1
    /\ closeCount >= 1 => /\ sent # <<>>
                          /\ IsTerminal(Last(sent))
                          /\ recvd = sent
                          /\ exitPath \in {"ctx", "readErr", "writeErr", "eof"}

C2_Witness ==
    /\ closeCount = 1
    /\ exitPath = "writeErr"
    /\ Len(sent) >= 2

C4_FileCopyResume ==
    (/\ task.kind = "file"
     /\ session = 2
     /\ doPc = "returned"
     /\ Last(calls).name = "onOK"
     /\ 0 < doVars.copied
     /\ doVars.copied < Len(srcData)) =>
        dstFile = UninterruptedCopy(srcData, 0, cpVars.bufSize, <<>>)

C4_Witness ==
    /\ task.kind = "file"
    /\ session = 2
    /\ doPc = "returned"
    /\ Last(calls).name = "onOK"
    /\ doVars.copied = 1
    /\ Len(srcData) = 3

\* C5: after a Do session that ended with Stop or OK, the task's copied is
\* its value before the session plus the written of the terminal event.
C5_CopiedAfterSession ==
    (doPc = "returned" /\ Last(recvd).kind \in {"Stop", "OK"}) =>
        copied(task) = doVars.copied + Last(recvd).written

C5_Witness ==
    /\ doPc = "returned"
    /\ session = 2
    /\ Last(recvd).kind = "Stop"
    /\ Last(recvd).written > 0
    /\ doVars.copied > 0

\* C6 as stated: no step of any stop / snapshot / load / resume cycle
\* lowers the task's copied.
C6_CopiedNeverDecreases ==
    [][TaskCopied(task') >= TaskCopied(task)]_vars

\* C6, amended: the task's copied is lowered by no step other than the
\* load of a Download snapshot whose range-support flag is false, which
\* resets it to 0.
C6_CopiedDecreasesOnlyOnRestart ==
    [][\/ TaskCopied(task') >= TaskCopied(task)
       \/ /\ task.kind = "download"
          /\ ~task.IsRangeSupported
          /\ doPc = "returned"
          /\ doPc' = "ready"
          /\ TaskCopied(task') = 0]_vars

C6_Witness ==
    /\ session >= 2
    /\ doPc = "returned"
    /\ doVars.copied > 0
    /\ copied(task) > doVars.copied

\* C7: the consumer receives the events in the order the worker generated
\* them, and the written of successive events (progress events and the
\* terminal Stop or OK) never decreases.
C7_OrderedNonDecreasing ==
    /\ Len(recvd) <= Len(sent)
    /\ \A i \in 1..Len(recvd) : recvd[i] = sent[i]
    /\ \A i, j \in 1..Len(sent) :
          (i < j /\ sent[i].kind # "Error" /\ sent[j].kind # "Error") =>
              sent[i].written <= sent[j].written

C7_Witness ==
    /\ Len(recvd) >= 3
    /\ recvd[1].written < recvd[2].written
    /\ Last(recvd).kind = "Stop"

\* C8: in every invocation of Do, with all callbacks given, exactly one of
\* onOK, onStop, onError is invoked, once, and nothing is invoked after it.
\* The Do meant is the one that takes the handles from writer() and
\* reader(); the older Do whose Writer() and Reader() can fail is C37's.
C8_OneTerminalCallback ==
    /\ doPc \notin {"ivRange", "ivReturned", "crashed"} =>
          /\ Cardinality(TerminalCalls) <= 1
          /\ \A i \in TerminalCalls : i = Len(calls)
    /\ doPc = "returned" => Cardinality(TerminalCalls) = 1

C8_Witness ==
    /\ doPc = "returned"
    /\ Len(calls) >= 2
    /\ Last(calls).name = "onError"

C10_ErrorLeavesCopied ==
    (doPc = "returned" /\ Last(recvd).kind = "Error") =>
        /\ Last(calls).name = "onError"
        /\ copied(task) = doVars.copied

C10_Witness ==
    /\ doPc = "returned"
    /\ Last(recvd).kind = "Error"
    /\ session = 2
    /\ doVars.copied > 0
    /\ Len(sessSink) > 0

\* C11: when Do has received Stop, the task's copied is the event's copied
\* (setCopied ran before the snapshot was taken, so a snapshot that was
\* taken holds that copied value); if the snapshot cannot be taken, onError
\* has been called with that failure and onStop has not; otherwise onStop
\* has been called with the snapshot, which the caller holds, and onError
\* has not.
C11_StopSnapshot ==
    (doPc \in {"range", "returned"} /\ recvd # <<>> /\ Last(recvd).kind = "Stop") =>
        LET ev == Last(recvd)
            m == MarshalJSON(task)
            names == {calls[i].name : i \in 1..Len(calls)}
        IN  /\ copied(task) = EvCopied(ev)
            /\ calls # <<>>
            /\ IF m.err # "nil"
               THEN /\ Last(calls).name = "onError"
                    /\ Last(calls).cause = m.err
                    /\ "onStop" \notin names
               ELSE /\ Last(calls).name = "onStop"
                    /\ Last(calls).data = m.data
                    /\ Last(calls).copied = EvCopied(ev)
                    /\ savedState = m.data
                    /\ "onError" \notin names

\* A hash task whose accumulator cannot export its state is stopped after
\* some bytes were hashed: onError is called with the snapshot failure.
C11_Witness ==
    /\ doPc = "returned"
    /\ task.kind = "hash"
    /\ Last(recvd).kind = "Stop"
    /\ Last(recvd).written > 0
    /\ Last(calls).name = "onError"
    /\ Last(calls).cause = "not binary marshaler"
    /\ task.Computed = Last(recvd).written

\* C12: when Do has returned, by whichever path (OK, Stop, Error, snapshot
\* failure), it has called Close exactly once on the reader if the reader
\* implements Close, and exactly once on the writer if the writer does; it
\* calls Close on neither before it returns, and never on a handle that
\* has no Close.
C12_ClosedOnceOnReturn ==
    LET closer == task.kind \in {"file", "download"}
        n == IF closer THEN 1 ELSE 0
    IN  /\ doPc = "range" => closes = [r |-> 0, w |-> 0]
        /\ doPc = "returned" =>
              /\ closes = [r |-> n, w |-> n]
              /\ closer => (~r.open /\ ~w.open)
              /\ Last(recvd).kind \in {"OK", "Stop", "Error"}

\* Do returns from a download whose second session ended with Error.
C12_Witness ==
    /\ doPc = "returned"
    /\ task.kind = "download"
    /\ session = 2
    /\ Last(recvd).kind = "Error"
    /\ closes = [r |-> 1, w |-> 1]

\* C13: after a load from a snapshot, the reader's next byte is the source
\* byte at offset copied and the writer's next byte lands at destination
\* offset copied, copied being the loaded task's copied().
C13_LoadPositions ==
    (doPc = "ready" /\ session >= 1 /\ task.kind \in {"file", "download"}) =>
        /\ r.off = copied(task)
        /\ WritePos(w, dstFile) = copied(task)

\* C14: a download loaded from a snapshot whose range-support flag is false
\* and then run to OK restarted from scratch: its session began with
\* copied 0 and a plain GET (the body starts at source offset 0), and the
\* destination is byte for byte the full source, with nothing of the
\* earlier partial session left in it.
C14_RestartFromScratch ==
    (/\ task.kind = "download"
     /\ ~task.IsRangeSupported
     /\ session >= 2
     /\ doPc = "returned"
     /\ Last(recvd).kind = "OK") =>
        /\ doVars.copied = 0
        /\ sessStart = 0
        /\ dstFile = srcData

\* C15: when the read that ends the copy returns 0 bytes, the worker sends
\* a final Written event carrying the final written value and then OK as
\* the last event.
C15_FinalWrittenBeforeOK ==
    (sent # <<>> /\ Last(sent).kind = "OK") =>
        /\ Len(sent) >= 2
        /\ sent[Len(sent) - 1].kind = "Written"
        /\ sent[Len(sent) - 1].written = Last(sent).written

WrittenEvents == {i \in 1..Len(sent) : sent[i].kind = "Written"}

\* C17: within a session no two Written events carry the same written
\* value: the worker remembers the value it last reported (0 at first) and
\* a tick sends a Written event only if written differs from it.
C17_NoDuplicateProgress ==
    /\ \A i, j \in WrittenEvents : i < j => sent[i].written # sent[j].written
    /\ \A i \in WrittenEvents : sent[i].written > 0
    /\ pc # "none" =>
          cpVars.oldWritten =
             IF WrittenEvents = {} THEN 0
             ELSE sent[CHOOSE i \in WrittenEvents : \A j \in WrittenEvents : j <= i].written

\* Two Written events were sent, and a further tick has arrived with
\* nothing written since the last of them.
C17_Witness ==
    /\ Cardinality(WrittenEvents) >= 2
    /\ pc = "select"
    /\ tick
    /\ cpVars.written = cpVars.oldWritten

Hundred == [num |-> 100, den |-> 1]

\* C18: an OK event built from the prevCopied and written of any session
\* reports percent exactly 100 whatever its total and isTotalKnown are
\* (total 0, total unknown and total below copied included), every OK
\* event sent does, and 100 is the percent Do passes to onOK.
C18_OKIsHundredPercent ==
    /\ \A k \in BOOLEAN : \A tot \in 0..(MaxSrcLen + 1) :
          EvPercent(newEventOK(k, tot, cpVars.prevCopied, cpVars.written)) = Hundred
    /\ \A i \in 1..Len(sent) : sent[i].kind = "OK" => EvPercent(sent[i]) = Hundred
    /\ \A i \in 1..Len(calls) : calls[i].name = "onOK" => calls[i].percent = Hundred

\* onOK is called for a hash task, whose total is 0, after bytes were
\* hashed.
C18_Witness ==
    /\ doPc = "returned"
    /\ task.kind = "hash"
    /\ Last(calls).name = "onOK"
    /\ Last(calls).total = 0
    /\ Last(calls).written > 0
    /\ Last(calls).percent = Hundred

\* C19: in every onWritten, onStop and onOK call of a Do session the
\* isTotalKnown and total arguments are the values the task's total()
\* returned when the session started, the same for all events of the
\* session; for a hash task isTotalKnown is false in every call.
C19_TotalAsTaskReports ==
    doPc \in {"range", "returned"} =>
        \A i \in 1..Len(calls) :
            calls[i].name \in {"onWritten", "onStop", "onOK"} =>
                /\ calls[i].isTotalKnown = doVars.isTotalKnown
                /\ calls[i].total = doVars.total
                /\ task.kind = "hash" => ~calls[i].isTotalKnown

\* C20: once a read has returned an error other than end-of-stream, the
\* worker's last event is Error carrying that error, the worker is sending
\* it or has returned (it is not at a write), and the sink holds exactly
\* the bytes written before that read: the bytes that came with the
\* failing read are not written.
C20_ReadErrorEndsSession ==
    (pc # "none" /\ cpVars.err = "read error") =>
        /\ pc \in {"send", "exit", "done"}
        /\ exitPath = "readErr"
        /\ sent # <<>>
        /\ Last(sent).kind = "Error"
        /\ Last(sent).err = "read error"
        /\ \A i \in 1..(Len(sent) - 1) : sent[i].kind = "Written"
        /\ Len(sessSink) = cpVars.written
        /\ sessSink = SubSeq(srcData, sessStart + 1, sessStart + cpVars.written)

\* After some bytes were written, a read failed and returned bytes with
\* its error; the worker has returned and those bytes are not in the sink.
C20_Witness ==
    /\ pc = "done"
    /\ cpVars.err = "read error"
    /\ Len(sessSink) > 0
    /\ r.off > sessStart + Len(sessSink)
    /\ Last(sent).kind = "Error"

\* C21: the step in which a write to the sink fails sends Error carrying
\* that error as the next and last event and leaves written as it was;
\* from then on the session reads nothing, writes nothing, sends nothing
\* more and does not change written.
C21_WriteErrorEndsSession ==
    [][/\ (pc = "write" /\ cpVars'.err = "write error") =>
              /\ cpVars'.written = cpVars.written
              /\ pc' = "send"
              /\ sent' = Append(sent, outEv')
              /\ outEv'.kind = "Error"
              /\ outEv'.err = "write error"
       /\ (cpVars.err = "write error" /\ cpVars'.err = "write error") =>
              /\ pc' \in {"send", "exit", "done"}
              /\ r'.off = r.off
              /\ sessSink' = sessSink
              /\ SinkContent' = SinkContent
              /\ sent' = sent
              /\ cpVars'.written = cpVars.written]_vars

\* A write failed after the sink had accepted part of the chunk: the worker
\* has returned, its last event is Error, and written counts only the
\* bytes of the writes that succeeded.
C21_Witness ==
    /\ pc = "done"
    /\ cpVars.err = "write error"
    /\ Last(sent).kind = "Error"
    /\ cpVars.written > 0
    /\ Len(sessSink) > cpVars.written

\* C22: a worker that is at its select while the context is done starts no
\* read: its step is the cancellation branch, which sends Stop, or the
\* tick branch; and a session whose context was done when it started reads
\* nothing, writes nothing, and sends nothing but Stop with written 0.
C22_NoReadAfterCancel ==
    /\ [][(pc = "select" /\ ctxErr # "nil") =>
              /\ r'.off = r.off
              /\ sessSink' = sessSink
              /\ pc' \in {"select", "send"}
              /\ pc' = "send" => outEv'.kind \in {"Stop", "Written"}]_vars
    /\ [](doVars.ctx # "nil" =>
              /\ r.off = sessStart
              /\ sessSink = <<>>
              /\ cpVars.written = 0
              /\ \A i \in 1..Len(sent) : sent[i].kind = "Stop" /\ sent[i].written = 0
              /\ WorkerReturned => Len(sent) = 1)

\* Do was called with a context already cancelled and has returned: the
\* only event was Stop with written 0, though the source had bytes.
C22_Witness ==
    /\ doPc = "returned"
    /\ doVars.ctx = "Canceled"
    /\ Len(srcData) > 0
    /\ Len(recvd) = 1
    /\ recvd[1].kind = "Stop"
    /\ recvd[1].written = 0
    /\ r.off = sessStart

\* C23: once the context of a session is done, written grows by at most
\* the bytes of one chunk, that of a write whose read had been made before
\* the context was done: written never exceeds its value at that moment
\* by more than the buffer size, no read is started, only a step that
\* completes the pending write changes written, and it leaves the worker
\* with no other write pending; the Stop event carries that written.
C23_BoundedCancelLatency ==
    /\ [](writtenAtDone >= 0 =>
              /\ cpVars.written <= writtenAtDone + cpVars.bufSize
              /\ \A i \in 1..Len(sent) :
                    sent[i].kind = "Stop" =>
                        /\ sent[i].written = cpVars.written
                        /\ sent[i].written <= writtenAtDone + cpVars.bufSize)
    /\ [][(ctxErr # "nil" /\ doPc \in {"range", "startRange"}) =>
              /\ r'.off = r.off
              /\ pc # "write" => (cpVars'.written = cpVars.written /\ pc' # "write")
              /\ pc = "write" =>
                    /\ cpVars'.written <= cpVars.written + Len(cpVars.buf)
                    /\ Len(cpVars.buf) <= cpVars.bufSize
                    /\ pc' \in {"write", "select", "send"}]_vars

\* The context was cancelled after some bytes were written and while a
\* chunk of two bytes was between its read and its write; the write
\* completed and the session ended with Stop carrying the two bytes more.
C23_Witness ==
    /\ pc = "done"
    /\ ctxErr = "Canceled"
    /\ writtenAtDone > 0
    /\ Last(sent).kind = "Stop"
    /\ Last(sent).written = writtenAtDone + 2

\* C24: the bytes of a read that returned n > 0 bytes, with or without
\* end-of-stream, are held for the write that follows; a session that has
\* sent OK has written every byte it read, the last chunk included, and
\* has counted it in written, which OK carries.
C24_FinalChunkNotLost ==
    /\ pc = "write" =>
          /\ cpVars.buf # <<>>
          /\ cpVars.err \in {"nil", "EOF"}
          /\ r.off = sessStart + cpVars.written + Len(cpVars.buf)
          /\ cpVars.buf = SubSeq(srcData, sessStart + cpVars.written + 1, r.off)
          /\ \A i \in 1..Len(sent) : sent[i].kind # "OK"
    /\ (doPc \in {"range", "startRange"} /\ sent # <<>> /\ Last(sent).kind = "OK") =>
          /\ r.off >= Len(srcData)
          /\ cpVars.written = r.off - sessStart
          /\ sessSink = SubSeq(srcData, sessStart + 1, r.off)
          /\ Last(sent).written = cpVars.written

\* The second session of a file copy ended with OK after its last chunk,
\* one byte in a buffer of two, was written.
C24_Witness ==
    /\ doPc = "range"
    /\ task.kind = "file"
    /\ session = 2
    /\ cpVars.bufSize = 2
    /\ sent # <<>>
    /\ Last(sent).kind = "OK"
    /\ Len(sessSink) = 1
    /\ Last(sessSink) = Last(srcData)
    /\ dstFile = srcData

\* C25: in a session of task.Do the task's copied is changed only when
\* Stop or OK is processed: it keeps its value from before the session as
\* long as no terminal event has been received, and after a session that
\* ended with Error.
C25_CopiedOnlyAtTerminal ==
    doPc \in {"taskRange", "taskReturned"} =>
        ((recvd = <<>> \/ Last(recvd).kind \in {"Written", "Error"}) =>
            copied(task) = doVars.copied)

\* C26: a Copy or CopyBuffer call whose context is done issues no further
\* read: its next read step returns at once, and the call returns the
\* context's error with written equal to the bytes it gave the sink, all
\* the bytes it read; a first call that was not stopped and succeeded has
\* given the sink the whole source, and so has a stopped first call
\* followed by a second call on the rest of the stream that succeeded.
C26_CopyStopsAndResumes ==
    /\ [][(copyVars.pc = "read" /\ ctxErr # "nil") =>
              /\ r'.off = r.off
              /\ hashed' = hashed
              /\ copyVars'.pc = "ret"
              /\ copyVars'.err = ctxErr
              /\ copyVars'.written = copyVars.written]_vars
    /\ []((doPc \in {"copy1", "copy2"} /\ copyVars.pc = "ret"
             /\ copyVars.err \in {"Canceled", "DeadlineExceeded"}) =>
              /\ copyVars.err = ctxErr
              /\ r.off = copyVars.n + copyVars.written
              /\ hashed = SubSeq(srcData, 1, copyVars.n + copyVars.written))
    /\ []((doPc \in {"copy1", "copy2", "copyDone"} /\ copyVars.pc = "ret"
             /\ copyVars.err = "nil") =>
              /\ hashed = srcData
              /\ copyVars.n + copyVars.written = Len(srcData))

\* A first call was stopped after some bytes, and the second call, on the
\* rest of the stream, has returned without error after some more.
C26_Witness ==
    /\ doPc = "copyDone"
    /\ copyVars.n > 0
    /\ copyVars.written > 0
    /\ copyVars.err = "nil"
    /\ hashed = srcData

\* C27: NewCopyFileTask called on a source that is not a regular file
\* returns an error and no task, and its call leaves the destination as it
\* was: not created if it did not exist, not truncated if it did.
C27_NonRegularSourceRejected ==
    /\ [](ctor.sc = "dir" =>
              /\ doPc = "failed"
              /\ ctor.err = "src's not a regular file"
              /\ task = NoTask
              /\ ~w.open
              /\ ~r.open)
    /\ [][(ctor.sc = "none" /\ ctor'.sc = "dir") =>
              /\ dstFile' = dstFile
              /\ dstExists' = dstExists]_vars

\* The constructor has refused a directory as source, and the destination
\* that existed before still has its content.
C27_Witness ==
    /\ ctor.sc = "dir"
    /\ doPc = "failed"
    /\ task = NoTask
    /\ dstExists
    /\ dstFile = <<9>>

\* C28: NewCopyFileFromFSTask returns an error and no task when srcFS cannot
\* open the source, and does not go on to use the handle that was not opened.
C28_FSOpenErrorReturned ==
    ctor.sc = "fsOpenFails" =>
        /\ doPc = "failed"
        /\ ctor.err # "nil"
        /\ task = NoTask

\* The byte count a snapshot document encodes, decoded from the counter
\* field of whichever task kind wrote it.
SnapshotCopied(data) ==
    IF "copied" \in DOMAIN data THEN ParseUint(data.copied)
    ELSE IF "downloaded" \in DOMAIN data THEN ParseUint(data.downloaded)
    ELSE ParseUint(data.computed)

\* C29: the snapshot handed to onStop encodes copied = (copied() of the task
\* before the session) + (written of the Stop event): it is taken after the
\* counter was stored, never before.
C29_SnapshotAfterCounterUpdate ==
    (/\ doPc \in {"range", "returned"}
     /\ recvd # <<>>
     /\ Last(recvd).kind = "Stop"
     /\ calls # <<>>
     /\ Last(calls).name = "onStop") =>
        /\ SnapshotCopied(Last(calls).data) = doVars.copied + Last(recvd).written
        /\ SnapshotCopied(Last(calls).data) = copied(task)

\* A resumed session that started with bytes already copied is stopped
\* after it wrote more, and onStop has received the snapshot.
C29_Witness ==
    /\ doPc = "returned"
    /\ session = 2
    /\ doVars.copied > 0
    /\ recvd # <<>>
    /\ Last(recvd).kind = "Stop"
    /\ Last(recvd).written > 0
    /\ calls # <<>>
    /\ Last(calls).name = "onStop"
    /\ SnapshotCopied(Last(calls).data) = doVars.copied + Last(recvd).written

\* C30: when the consumer keeps receiving and every read and write
\* returns, a session Do has started over a finite source, cancelled or
\* not, ends: the worker emits a terminal event and closes the channel, and
\* Do returns.
C30_SessionEnds ==
    (doPc = "range") ~>
        (/\ doPc = "returned"
         /\ pc = "done"
         /\ closeCount = 1
         /\ recvd # <<>>
         /\ Last(recvd).kind \in {"OK", "Stop", "Error"})

\* A session that was cancelled while the worker was copying has delivered
\* its Stop event, the channel is closed and Do has returned.
C30_Witness ==
    /\ doPc = "returned"
    /\ pc = "done"
    /\ closeCount = 1
    /\ ctxErr = "Canceled"
    /\ writtenAtDone > 0
    /\ Last(recvd).kind = "Stop"
    /\ Len(recvd) > 1

\* C32: when an EventWritten, EventStop or EventOK is emitted, its written
\* value is the number of bytes the sink has accepted in this session, and
\* what the sink accepted in this session is exactly the first written bytes
\* read from the source from the session's start position on: nothing is
\* skipped, duplicated or reordered, and nothing read is left unwritten.
C32_EventMatchesSink ==
    (pc = "send" /\ outEv.kind \in {"Written", "Stop", "OK"}) =>
        /\ outEv.written = Len(sessSink)
        /\ sessStart + outEv.written <= Len(srcData)
        /\ sessSink = SubSeq(srcData, sessStart + 1, sessStart + outEv.written)
        /\ r.off = sessStart + outEv.written

\* A resumed session that has written two chunks is about to deliver a
\* Stop event.
C32_Witness ==
    /\ pc = "send"
    /\ outEv.kind = "Stop"
    /\ sessStart > 0
    /\ outEv.written = 2
    /\ cpVars.bufSize = 1
    /\ sessSink = SubSeq(srcData, sessStart + 1, sessStart + 2)

\* C33: Do calls Close on the task's reader or writer only after the worker
\* has closed the event channel: while the worker can still read or write,
\* no Close has run and both handles are open.
C33_CloseAfterWorkerDone ==
    /\ []((doPc = "range" /\ pc \in {"init", "select", "write", "send", "exit"}) =>
              /\ closes = NoCloses
              /\ (DoDeferred(task).r => r.open)
              /\ (DoDeferred(task).w => w.open))
    /\ [][(doPc = "range" /\ (closes' # closes \/ r'.open # r.open \/ w'.open # w.open)) =>
              /\ pc = "done"
              /\ closeCount = 1
              /\ outEv = NoEvent
              /\ doPc' = "returned"]_vars

\* Do has closed both files of a copy that was stopped after it wrote
\* bytes, and the worker had closed the channel before.
C33_Witness ==
    /\ doPc = "returned"
    /\ task.kind = "file"
    /\ closes = [r |-> 1, w |-> 1]
    /\ ~r.open
    /\ ~w.open
    /\ pc = "done"
    /\ closeCount = 1
    /\ exitPath = "ctx"
    /\ Len(sessSink) > 0

\* C34: once the cancellation signal has fired, the worker of a session
\* eventually exits and closes the event channel, even when the consumer
\* has stopped receiving before the terminal event.
C34_WorkerEndsAfterCancel ==
    (pc \in {"init", "select", "write", "send", "exit"} /\ ctxErr # "nil") ~>
        (pc = "done" /\ closeCount = 1)

\* C36: when NewCopyFileTask or NewDownloadTask returns an error, every
\* file handle or response body it had opened before the failure has been
\* closed: a failed construction leaves nothing open.
C36_FailedConstructionLeaksNothing ==
    (ctor.sc \in (CopyFileScenarios \cup DownloadScenarios) /\ ctor.err # "nil") =>
        ctor.open = {}

\* C31: when the goroutine started by Progress.Start has left, by chExit or
\* by ctx, the last callback reported the Progress's current value at that
\* moment, so every byte written before the exit signal has been reported.
C31_FinalProgressReported ==
    (prog.pc = "exited" /\ prog.hasFn /\ prog.atSignal > 0) =>
        /\ prog.reported # <<>>
        /\ Last(prog.reported) = prog.atExit
        /\ Last(prog.reported) >= prog.atSignal

\* C35: when CopyWithProgress returns because of cancellation, the bytes
\* consumed from the source are exactly the returned written count: no
\* chunk was read and then dropped, so going on with the same reader after
\* prev + written bytes loses nothing.
C35_NothingReadIsDropped ==
    (/\ doPc \in {"cwp", "cwpDone"}
     /\ copyVars.pc = "ret"
     /\ copyVars.err \in {"Canceled", "DeadlineExceeded"}) =>
        /\ r.off = cwp.prev + copyVars.written
        /\ hashed = SubSeq(srcData, 1, cwp.prev + copyVars.written)

\* C37: in the Do whose Task.Writer() and Task.Reader() can fail, when
\* either fails Do calls onError once with that error and returns: no copy
\* session is started and no other callback is made.
C37_OpenErrorEndsDo ==
    (doPc \in {"ivRange", "ivReturned", "crashed"} /\ (IsNil(w) \/ IsNil(r))) =>
        /\ pc = "none"
        /\ Len(calls) = 1
        /\ calls[1].name = "onError"
        /\ calls[1].cause \in {"writer error", "reader error"}

\* C38: copyfile.Load on a well-formed snapshot decodes the document once,
\* Task.UnmarshalJSON does not enter itself again, and Load returns.
C38_LoadDecodesOnce ==
    (load.pc # "none" /\ load.valid) =>
        /\ load.depth <= 1
        /\ load.pc # "overflow"
        /\ doPc # "crashed"

=============================================================================
